---- MODULE Spec2Model ----
(***************************************************************************)
(* Streaming translation engine of the chat-completion gateway             *)
(* (src/index.ts, the "all modes" server, lines 1265-1609).                *)
(*                                                                         *)
(* The model follows one streaming request: the detached task started at   *)
(* line 1410 reads the upstream event stream chunk by chunk, turns every   *)
(* complete line into at most one outgoing chunk and closes the writer in  *)
(* its finally block.  The downstream client may go away at any moment,    *)
(* after which every write, and the close, of the writer is rejected.      *)
(*                                                                         *)
(* Text is a sequence of one-character strings; an outgoing write is a     *)
(* record [kind, fields, text, src].                                       *)
(*                                                                         *)
(* Further specifications follow the other parts of the server: the        *)
(* non-stream branch (NonStreamSpec), two streaming requests served        *)
(* together (PairSpec), the handler up to the Response it returns          *)
(* (FetchSpec) and transformPayload (FlagSpec).                            *)
(***************************************************************************)
EXTENDS Naturals, Sequences, FiniteSets, TLC

\* ------------------------------------------------------------------ bounds
MaxLen == 2         \* longest cumulative string the upstream sends
MaxEvents == 3      \* lines the upstream sends on one connection
MaxLines == 2       \* complete lines in one read chunk
MaxResults == 6     \* longest search result list the upstream sends
MaxFrames == 2      \* newline-terminated lines of an upstream text
MaxFeeds == 2       \* reads of each of two requests served together
MaxParts == 2       \* words a model name is put together from
MaxMsgs == 3        \* messages of a request body
MaxIds == 2         \* values generateMsgId() and Date.now() can give

\* ------------------------------------------------------- program constants
SearchCap == 5      \* resultList.slice(0,5)

\* The cumulative strings the upstream sends: a run of "a", or "b" alone or
\* after the longest run but one.  Every case of the tracker occurs among
\* them: a value that extends, equals, is shorter than, or has the length of but differs
\* from the one before it, and the empty value.
RECURSIVE Run(_)
Run(n) == IF n = 0 THEN <<>> ELSE Append(Run(n - 1), "a")

Strs ==
  {Run(n) : n \in 0..MaxLen} \cup {Append(Run(n), "b") : n \in {0, MaxLen - 1}}

Channels == {"content", "think"}

VARIABLES
  pc,            \* position of the streaming task
  pending,       \* lines of the current read chunk not yet processed
  lastContent,   \* last cumulative answer text taken over
  lastThinking,  \* last cumulative reasoning text taken over
  wstate,        \* the writer: "writable", "errored" (client gone), "closed"
  upstream,      \* what the reader reported last: "open", "done", "error"
  out,           \* the writes the writer accepted, in order
  closeCalled,   \* writer.close() was called
  escaped,       \* a rejection left the task uncaught
  exitVia,       \* how the read loop was left
  nLines,        \* lines processed so far
  fed,           \* per channel: the last cumulative value the upstream sent
  emitted,       \* per channel: the deltas computed so far, concatenated
  chain,         \* per channel: every value so far extended the one before
  lastEv,        \* the last content/think event and what the tracker did
  sawFinish,     \* a finish event entered its branch
  inflight,      \* writer.write() calls whose promise has not settled
  issued,        \* every writer.write() call, accepted or not, in order
  yielded,       \* the events that set hasUpdate, with what they computed
  whole,         \* the text the upstream sends, character by character
  began,         \* where the last read began: at the start of the text,
                 \* of a later line ("line"), or inside a line ("mid")
  pos,           \* characters delivered so far
  buffer,        \* the carry-over buffer
  decoded,       \* the event records decoded so far
  nsPc,          \* position of the non-stream branch
  finalContent,  \* non-stream: the latest answer text
  finalThinking, \* non-stream: the latest reasoning text
  searchLogs,    \* non-stream: the search lines collected
  result,        \* non-stream: the message of the JSON object returned
  late,          \* a content or think value arrived after a finish event
  cells,         \* two requests: the variables of each request's closure
  sent,          \* two requests: the text delivered to each request
  hpc,           \* position of the fetch handler
  request,       \* the request the handler was called with
  answer,        \* what the upstream call gave
  calls,         \* calls of fetch(TARGET_URL, ...)
  reply,         \* the Response the handler returned
  started,       \* the streaming task was started
  modelName,     \* transformPayload: reqBody.model
  flags,         \* transformPayload: reasonEnabled and searchEnabled
  reqBody,       \* transformPayload: the messages of the request body
  payload,       \* transformPayload: the content and entries returned
  drafts         \* one channel's tracker, with and without the reset

vars == <<pc, pending, lastContent, lastThinking, wstate, upstream, out,
          closeCalled, escaped, exitVia, nLines, fed, emitted, chain,
          lastEv, sawFinish, inflight, issued, yielded,
          whole, began, pos, buffer, decoded,
          nsPc, finalContent, finalThinking, searchLogs, result, late,
          cells, sent, hpc, request, answer, calls, reply, started,
          modelName, flags, reqBody, payload, drafts>>

\* The frame parser's own state, and the text it is fed.
parseVars == <<whole, began, pos, buffer, decoded>>

\* The streaming task, its reader and its writer.
taskVars == <<pc, pending, lastContent, lastThinking, wstate, upstream, out,
              closeCalled, escaped, exitVia, nLines, fed, emitted, chain,
              lastEv, sawFinish, inflight, issued, yielded>>

\* The locals of the non-stream branch.
nsVars == <<nsPc, finalContent, finalThinking, searchLogs, result, late>>

\* The closures of two requests served at the same time.
pairVars == <<cells, sent>>

\* The fetch handler up to the response it returns.
fetchVars == <<hpc, request, answer, calls, reply, started>>

\* transformPayload's input and output.
flagVars == <<modelName, flags>>

\* What the streaming task does not touch.
\* transformPayload's messages, and the two delta algorithms side by side.
lastVars == <<reqBody, payload, drafts>>

restVars == <<nsVars, pairVars, fetchVars, flagVars, lastVars>>

otherVars == <<parseVars, restVars>>

\* A value that is absent: null, undefined, no response yet.
Null == "null"

\* The non-stream branch has not been entered.
NsIdle ==
  /\ nsPc = "idle"
  /\ finalContent = <<>>
  /\ finalThinking = <<>>
  /\ searchLogs = <<>>
  /\ result = Null
  /\ late = FALSE

\* No second request is being served.
PairIdle ==
  /\ cells = <<>>
  /\ sent = <<>>

\* No upstream response, and no Response returned, yet.
NoAnswer == [status |-> 0, hasBody |-> FALSE, readable |-> FALSE]

NoReply == [kind |-> "none", status |-> 0, json |-> FALSE, cors |-> FALSE]

\* The fetch handler is not followed.
FetchIdle ==
  /\ hpc = "idle"
  /\ request = Null
  /\ answer = NoAnswer
  /\ calls = 0
  /\ reply = NoReply
  /\ started = FALSE

\* transformPayload is not followed.
FlagIdle ==
  /\ modelName = <<>>
  /\ flags = <<>>

\* Neither the messages nor the two algorithms are followed.
LastIdle ==
  /\ reqBody = <<>>
  /\ payload = <<>>
  /\ drafts = <<>>

RestIdle == NsIdle /\ PairIdle /\ FetchIdle /\ FlagIdle /\ LastIdle

\* ------------------------------------------------------------ Delta Tracker
\* fullContent.startsWith(lastContent)
StartsWith(s, p) ==
  /\ Len(p) <= Len(s)
  /\ SubSeq(s, 1, Len(p)) = p

\* s.substring(n)
Substring(s, n) == SubSeq(s, n + 1, Len(s))

\* The same without the reset: the stale value is kept.
ResetLastKeep(last, full) == last

\* The same with the reset also taken when the new value is as long as the
\* last one.
ResetLastOrEqual(last, full) == IF Len(full) <= Len(last) THEN <<>> ELSE last

\* if (fullContent.length < lastContent.length) lastContent = "";
ResetLast(last, full) == IF Len(full) < Len(last) THEN <<>> ELSE last

\* The same taking every value for an extension of the last one.
DeltaSuffixOnly(last, full) == Substring(full, Len(ResetLast(last, full)))

\* The same emitting every cumulative value in full.
DeltaFull(last, full) == full

\* if (fullContent.startsWith(lastContent))
\*   delta = fullContent.substring(lastContent.length);
\* else delta = fullContent;
Delta(last, full) ==
  LET l == ResetLast(last, full)
  IN  IF StartsWith(full, l) THEN Substring(full, Len(l)) ELSE full

\* The same with the guard dropped.
HasDeltaAlways(delta) == TRUE

\* if (delta) { ... hasUpdate = true; }
HasDelta(delta) == Len(delta) > 0

\* lastContent after the event: fullContent when a delta was computed, and
\* otherwise whatever the reset left.
NextLast(last, full) ==
  IF HasDelta(Delta(last, full)) THEN full ELSE ResetLast(last, full)

\* ------------------------------------------------------------ search block
Item(i) == [title |-> "t" \o ToString(i), url |-> "u" \o ToString(i)]

ResultList(n) == [i \in 1..n |-> Item(i)]

Min(a, b) == IF a < b THEN a ELSE b

\* resultList.slice(0,5)
Slice(list) == SubSeq(list, 1, Min(Len(list), SearchCap))

\* `> ${idx+1}. [${item.title}](${item.url})\n`
EntryLine(k, item) ==
  <<"> ", ToString(k), ". [", item.title, "](", item.url, ")\n">>

RECURSIVE Entries(_, _)
Entries(list, k) ==
  IF k > Len(list) THEN <<>>
  ELSE EntryLine(k, list[k]) \o Entries(list, k + 1)

Separator == <<"\n---\n\n">>

\* A search payload: present is event.content being truthy, query the
\* query text (empty when absent), isList Array.isArray(resultList).
NoPayload == [present |-> FALSE, query |-> <<>>, isList |-> FALSE, resultList |-> <<>>]

QueryPayload(q) == [present |-> TRUE, query |-> q, isList |-> FALSE, resultList |-> <<>>]

ListPayload(n) == [present |-> TRUE, query |-> <<>>, isList |-> TRUE, resultList |-> ResultList(n)]

BarePayload == [present |-> TRUE, query |-> <<>>, isList |-> FALSE, resultList |-> <<>>]

\* The same with an empty list formatted as no block at all.
SearchLogSkipEmpty(p) ==
  IF Len(p.query) > 0 THEN <<"\nSearching: *">> \o p.query \o <<"*\n\n">>
  ELSE IF p.isList /\ Len(p.resultList) > 0
    THEN Entries(Slice(p.resultList), 1) \o Separator
  ELSE <<>>

\* let searchLog = ""; if (searchContent.query) ... else if (Array.isArray(...)) ...
\* The query line is the text around the query, written here without its
\* emoji and bold markers.
SearchLog(p) ==
  IF Len(p.query) > 0 THEN <<"\nSearching: *">> \o p.query \o <<"*\n\n">>
  ELSE IF p.isList THEN Entries(Slice(p.resultList), 1) \o Separator
  ELSE <<>>

\* ------------------------------------------------------------ upstream lines
\* Lines that carry no event record: no "data:" prefix, nothing after the
\* prefix, not JSON, JSON without an event field.
NonEventKinds == {"noprefix", "empty", "badjson", "noevent"}

Ev(t, isStr, c, p) == [type |-> t, isStr |-> isStr, content |-> c, search |-> p]

ResultCounts == {0, MaxResults}

SearchPayloads ==
  {NoPayload, BarePayload, QueryPayload(<<"q">>)} \cup {ListPayload(n) : n \in ResultCounts}

Events ==
  {Ev(t, TRUE, s, NoPayload) : t \in Channels, s \in Strs}
    \cup {Ev(t, FALSE, <<>>, NoPayload) : t \in Channels}
    \cup {Ev("search", FALSE, <<>>, p) : p \in SearchPayloads}
    \cup {Ev("finish", FALSE, <<>>, NoPayload), Ev("other", FALSE, <<>>, NoPayload)}

Lines ==
  {[kind |-> k, event |-> Ev("other", FALSE, <<>>, NoPayload)] : k \in NonEventKinds}
    \cup {[kind |-> "event", event |-> e] : e \in Events}

\* ------------------------------------------------------------ outgoing writes
Chunk(k, f, t, s) == [kind |-> k, fields |-> f, text |-> t, src |-> s]

\* delta: { role: "assistant", content: "" }, finish_reason: null
InitialChunk == Chunk("initial", {"role", "content"}, <<>>, "none")

\* delta: {}, finish_reason: "stop"
FinishChunk == Chunk("finish", {}, <<>>, "finish")

\* "data: [DONE]\n\n"
DoneMarker == Chunk("done", {}, <<>>, "finish")

\* delta: deltaPayload, finish_reason: null
UpdateChunk(f, t, s) == Chunk("update", f, t, s)

\* The same with one payload object that carries both fields.
DeltaPayloadBoth(type) == {"content", "reasoning_content"}

\* The fields of deltaPayload: { content: delta } in the content branch,
\* { reasoning_content: ... } in the think and search branches.
DeltaPayload(type) ==
  IF type = "content" THEN {"content"} ELSE {"reasoning_content"}

\* The same with the block written whether it is empty or not.
HasLogAlways(log) == TRUE

\* if (searchLog) { ... hasUpdate = true; }
HasLog(log) == Len(log) > 0

\* ------------------------------------------------------------ the task
NoEv ==
  [ch |-> "none", before |-> <<>>, base |-> <<>>, full |-> <<>>,
   delta |-> <<>>, after |-> <<>>]

\* The streaming task before its first step, and nothing yet read.
TaskInit ==
  /\ pc = "start"
  /\ pending = 0
  /\ lastContent = <<>>
  /\ lastThinking = <<>>
  /\ wstate = "writable"
  /\ upstream = "open"
  /\ out = <<>>
  /\ closeCalled = FALSE
  /\ escaped = FALSE
  /\ exitVia = "none"
  /\ nLines = 0
  /\ fed = [c \in Channels |-> <<>>]
  /\ emitted = [c \in Channels |-> <<>>]
  /\ chain = [c \in Channels |-> TRUE]
  /\ lastEv = NoEv
  /\ sawFinish = FALSE
  /\ inflight = 0
  /\ issued = <<>>
  /\ yielded = <<>>
  /\ whole = <<>>
  /\ began = "none"
  /\ pos = 0
  /\ buffer = <<>>
  /\ decoded = <<>>

Init == TaskInit /\ RestIdle

\* writer.write(...) resolves while the writer is writable and rejects once
\* the client has gone.
Accepts == wstate = "writable"

\* The writes accepted so far, with `item` written now.
Written(item) == IF Accepts THEN Append(out, item) ELSE out

\* The same with an update chunk merged into the update chunk written just
\* before it.
WriteCoalesced(item) ==
  LET merge(seq) ==
        IF seq # <<>> /\ seq[Len(seq)].kind = "update" /\ item.kind = "update"
          THEN [seq EXCEPT ![Len(seq)].text = @ \o item.text]
          ELSE Append(seq, item)
  IN  /\ out' = IF Accepts THEN merge(out) ELSE out
      /\ issued' = merge(issued)
      /\ inflight' = inflight + 1

\* One writer.write(item) call: the chunk is accepted or not, and the call's
\* promise is pending until WriteSettled.
Write(item) ==
  /\ out' = Written(item)
  /\ issued' = Append(issued, item)
  /\ inflight' = inflight + 1

NoWrite == UNCHANGED <<out, inflight, issued>>

\* await writer.write(...): the task goes on once the promise has settled.
Awaited == inflight = 0

\* The for loop moves to the next line, or the while loop to the next read.
NextLine ==
  /\ pending' = pending - 1
  /\ pc' = IF pending = 1 THEN "read" ELSE "line"

\* The initial chunk, written before the first read; a rejected write is
\* thrown to the outer catch.
WriteInitial ==
  /\ pc = "start"
  /\ Awaited
  /\ UNCHANGED otherVars
  /\ Write(InitialChunk)
  /\ pc' = IF Accepts THEN "read" ELSE "finally"
  /\ exitVia' = IF Accepts THEN exitVia ELSE "writeErr"
  /\ UNCHANGED <<pending, lastContent, lastThinking, wstate, upstream,
                 closeCalled, escaped, nLines, fed, emitted, chain, lastEv,
                 sawFinish, yielded>>

\* reader.read() returns a chunk that completes n lines.
ReadChunk(n) ==
  /\ pc = "read"
  /\ Awaited
  /\ UNCHANGED otherVars
  /\ nLines + n <= MaxEvents
  /\ pending' = n
  /\ nLines' = nLines + n
  /\ pc' = IF n = 0 THEN "read" ELSE "line"
  /\ UNCHANGED <<lastContent, lastThinking, wstate, upstream, out,
                 closeCalled, escaped, exitVia, fed, emitted, chain, lastEv,
                 sawFinish, inflight, issued, yielded>>

\* The same without the break: the loop reads on after done.
ReadDoneNoBreak ==
  /\ pc = "read"
  /\ Awaited
  /\ UNCHANGED otherVars
  /\ upstream' = "done"
  /\ pc' = "read"
  /\ exitVia' = "done"
  /\ UNCHANGED <<pending, lastContent, lastThinking, wstate, out,
                 closeCalled, escaped, nLines, fed, emitted, chain, lastEv,
                 sawFinish, inflight, issued, yielded>>

\* reader.read() returns done: break.
ReadDone ==
  /\ pc = "read"
  /\ Awaited
  /\ UNCHANGED otherVars
  /\ upstream' = "done"
  /\ pc' = "finally"
  /\ exitVia' = "done"
  /\ UNCHANGED <<pending, lastContent, lastThinking, wstate, out,
                 closeCalled, escaped, nLines, fed, emitted, chain, lastEv,
                 sawFinish, inflight, issued, yielded>>

\* reader.read() rejects: the outer catch logs the error.
ReadError ==
  /\ pc = "read"
  /\ Awaited
  /\ UNCHANGED otherVars
  /\ upstream' = "error"
  /\ pc' = "finally"
  /\ exitVia' = "readErr"
  /\ UNCHANGED <<pending, lastContent, lastThinking, wstate, out,
                 closeCalled, escaped, nLines, fed, emitted, chain, lastEv,
                 sawFinish, inflight, issued, yielded>>

\* A line that carries no event record.
SkipLine(k) ==
  /\ pc = "line"
  /\ Awaited
  /\ UNCHANGED otherVars
  /\ k \in NonEventKinds
  /\ NextLine
  /\ UNCHANGED <<lastContent, lastThinking, wstate, upstream, out,
                 closeCalled, escaped, exitVia, nLines, fed, emitted, chain,
                 lastEv, sawFinish, inflight, issued, yielded>>

\* What a content or think event leaves in the history variables.
Tracked(ch, last, full) ==
  LET d == Delta(last, full)
      e == IF HasDelta(d) THEN d ELSE <<>>
  IN  /\ fed' = [fed EXCEPT ![ch] = full]
      /\ chain' = [chain EXCEPT ![ch] = @ /\ StartsWith(full, fed[ch])]
      /\ emitted' = [emitted EXCEPT ![ch] = @ \o e]
      /\ lastEv' = [ch |-> ch, before |-> last, base |-> ResetLast(last, full),
                    full |-> full, delta |-> d, after |-> NextLast(last, full)]
      /\ yielded' = IF HasDelta(d) THEN Append(yielded, [src |-> ch, text |-> d])
                                   ELSE yielded

\* event.type === "content" && typeof event.content === "string"
ContentEvent(full) ==
  /\ pc = "line"
  /\ Awaited
  /\ UNCHANGED otherVars
  /\ lastContent' = NextLast(lastContent, full)
  /\ IF HasDelta(Delta(lastContent, full))
       THEN Write(UpdateChunk(DeltaPayload("content"), Delta(lastContent, full), "content"))
       ELSE NoWrite
  /\ Tracked("content", lastContent, full)
  /\ NextLine
  /\ UNCHANGED <<lastThinking, wstate, upstream, closeCalled, escaped,
                 exitVia, nLines, sawFinish>>

\* The same with one last-seen value for both channels.
ThinkEventShared(full) ==
  /\ pc = "line"
  /\ Awaited
  /\ UNCHANGED otherVars
  /\ lastContent' = NextLast(lastContent, full)
  /\ IF HasDelta(Delta(lastContent, full))
       THEN Write(UpdateChunk(DeltaPayload("think"), Delta(lastContent, full), "think"))
       ELSE NoWrite
  /\ Tracked("think", lastContent, full)
  /\ NextLine
  /\ UNCHANGED <<lastThinking, wstate, upstream, closeCalled, escaped,
                 exitVia, nLines, sawFinish>>

\* event.type === "think" && typeof event.content === "string"
ThinkEvent(full) ==
  /\ pc = "line"
  /\ Awaited
  /\ UNCHANGED otherVars
  /\ lastThinking' = NextLast(lastThinking, full)
  /\ IF HasDelta(Delta(lastThinking, full))
       THEN Write(UpdateChunk(DeltaPayload("think"), Delta(lastThinking, full), "think"))
       ELSE NoWrite
  /\ Tracked("think", lastThinking, full)
  /\ NextLine
  /\ UNCHANGED <<lastContent, wstate, upstream, closeCalled, escaped,
                 exitVia, nLines, sawFinish>>

\* The same with the block passed through the reasoning channel's tracker:
\* the block is compared with the last reasoning value and becomes it.
SearchEventTracked(p) ==
  /\ pc = "line"
  /\ Awaited
  /\ UNCHANGED otherVars
  /\ p.present
  /\ IF HasDelta(Delta(lastThinking, SearchLog(p)))
       THEN Write(UpdateChunk(DeltaPayload("search"),
                              Delta(lastThinking, SearchLog(p)), "search"))
       ELSE NoWrite
  /\ yielded' = IF HasDelta(Delta(lastThinking, SearchLog(p)))
                  THEN Append(yielded, [src |-> "search",
                                        text |-> Delta(lastThinking, SearchLog(p))])
                  ELSE yielded
  /\ lastThinking' = NextLast(lastThinking, SearchLog(p))
  /\ NextLine
  /\ UNCHANGED <<lastContent, wstate, upstream, closeCalled,
                 escaped, exitVia, nLines, fed, emitted, chain, lastEv,
                 sawFinish>>

\* event.type === "search" && event.content
SearchEvent(p) ==
  /\ pc = "line"
  /\ Awaited
  /\ UNCHANGED otherVars
  /\ p.present
  /\ IF HasLog(SearchLog(p))
       THEN Write(UpdateChunk(DeltaPayload("search"), SearchLog(p), "search"))
       ELSE NoWrite
  /\ yielded' = IF HasLog(SearchLog(p))
                  THEN Append(yielded, [src |-> "search", text |-> SearchLog(p)])
                  ELSE yielded
  /\ NextLine
  /\ UNCHANGED <<lastContent, lastThinking, wstate, upstream, closeCalled,
                 escaped, exitVia, nLines, fed, emitted, chain, lastEv,
                 sawFinish>>

\* The same without the marker and the return: the loop goes on after the
\* finish chunk.
FinishEventFallThrough ==
  /\ pc = "line"
  /\ Awaited
  /\ UNCHANGED otherVars
  /\ sawFinish' = TRUE
  /\ Write(FinishChunk)
  /\ NextLine
  /\ UNCHANGED <<lastContent, lastThinking, wstate, upstream, closeCalled,
                 escaped, exitVia, nLines, fed, emitted, chain, lastEv,
                 yielded>>

\* event.type === "finish": the finish chunk; a rejected write is swallowed
\* by the per-line catch and the loop goes on.
FinishEvent ==
  /\ pc = "line"
  /\ Awaited
  /\ UNCHANGED otherVars
  /\ sawFinish' = TRUE
  /\ Write(FinishChunk)
  /\ IF Accepts THEN pc' = "marker" /\ pending' = pending ELSE NextLine
  /\ UNCHANGED <<lastContent, lastThinking, wstate, upstream, closeCalled,
                 escaped, exitVia, nLines, fed, emitted, chain, lastEv,
                 yielded>>

\* The same without the return: the loop goes on after the marker.
WriteDoneNoReturn ==
  /\ pc = "marker"
  /\ Awaited
  /\ UNCHANGED otherVars
  /\ Write(DoneMarker)
  /\ NextLine
  /\ UNCHANGED <<lastContent, lastThinking, wstate, upstream, closeCalled,
                 escaped, exitVia, nLines, fed, emitted, chain, lastEv,
                 sawFinish, yielded>>

\* The terminal marker and the return; a rejected write is swallowed by the
\* per-line catch and the loop goes on.
WriteDone ==
  /\ pc = "marker"
  /\ Awaited
  /\ UNCHANGED otherVars
  /\ Write(DoneMarker)
  /\ IF Accepts
       THEN pc' = "finally" /\ exitVia' = "finish" /\ pending' = pending
       ELSE NextLine /\ exitVia' = exitVia
  /\ UNCHANGED <<lastContent, lastThinking, wstate, upstream, closeCalled,
                 escaped, nLines, fed, emitted, chain, lastEv, sawFinish,
                 yielded>>

\* The same with a missing payload of a content or think event read as the
\* empty string: const fullContent = event.content || "".
IgnoredEventCoerced(e) ==
  /\ pc = "line"
  /\ Awaited
  /\ UNCHANGED otherVars
  /\ ~(e.type \in Channels /\ e.isStr)
  /\ ~(e.type = "search" /\ e.search.present)
  /\ e.type # "finish"
  /\ lastContent' = IF e.type = "content" THEN <<>> ELSE lastContent
  /\ lastThinking' = IF e.type = "think" THEN <<>> ELSE lastThinking
  /\ NextLine
  /\ UNCHANGED <<wstate, upstream, out,
                 closeCalled, escaped, exitVia, nLines, fed, emitted, chain,
                 lastEv, sawFinish, inflight, issued, yielded>>

\* An event no branch takes: an unknown type, a content or think event
\* whose payload is no string, a search event without payload.
IgnoredEvent(e) ==
  /\ pc = "line"
  /\ Awaited
  /\ UNCHANGED otherVars
  /\ ~(e.type \in Channels /\ e.isStr)
  /\ ~(e.type = "search" /\ e.search.present)
  /\ e.type # "finish"
  /\ NextLine
  /\ UNCHANGED <<lastContent, lastThinking, wstate, upstream, out,
                 closeCalled, escaped, exitVia, nLines, fed, emitted, chain,
                 lastEv, sawFinish, inflight, issued, yielded>>

\* The same with the close after the loop instead of in a finally block:
\* only the break reaches it.
FinallyAfterLoop ==
  /\ pc = "finally"
  /\ Awaited
  /\ UNCHANGED otherVars
  /\ closeCalled' = (exitVia = "done")
  /\ wstate' = IF exitVia = "done" /\ wstate = "writable" THEN "closed" ELSE wstate
  /\ escaped' = (exitVia = "done" /\ wstate # "writable")
  /\ pc' = "done"
  /\ UNCHANGED <<pending, lastContent, lastThinking, upstream, out, exitVia,
                 nLines, fed, emitted, chain, lastEv, sawFinish, inflight,
                 issued, yielded>>

\* The same with a terminal marker written before the close.
FinallyWithMarker ==
  /\ pc = "finally"
  /\ Awaited
  /\ UNCHANGED otherVars
  /\ Write(DoneMarker)
  /\ closeCalled' = TRUE
  /\ wstate' = IF wstate = "writable" THEN "closed" ELSE wstate
  /\ escaped' = (wstate # "writable")
  /\ pc' = "done"
  /\ UNCHANGED <<pending, lastContent, lastThinking, upstream, exitVia,
                 nLines, fed, emitted, chain, lastEv, sawFinish, yielded>>

\* finally { await writer.close(); }: the close of an errored writer
\* rejects, and nothing catches it.
Finally ==
  /\ pc = "finally"
  /\ Awaited
  /\ UNCHANGED otherVars
  /\ closeCalled' = TRUE
  /\ wstate' = IF wstate = "writable" THEN "closed" ELSE wstate
  /\ escaped' = (wstate # "writable")
  /\ pc' = "done"
  /\ UNCHANGED <<pending, lastContent, lastThinking, upstream, out, exitVia,
                 nLines, fed, emitted, chain, lastEv, sawFinish, inflight,
                 issued, yielded>>

\* The promise of the pending write settles and the task resumes.
WriteSettled ==
  /\ inflight > 0
  /\ inflight' = inflight - 1
  /\ UNCHANGED otherVars
  /\ UNCHANGED <<pc, pending, lastContent, lastThinking, wstate, upstream,
                 out, closeCalled, escaped, exitVia, nLines, fed, emitted,
                 chain, lastEv, sawFinish, issued, yielded>>

\* The client goes away: the readable side is cancelled and the writer
\* becomes errored.  The finally block follows the end of the try block
\* without an await in between, so the client cannot go away there.
ClientDisconnect ==
  /\ pc \notin {"finally", "done"}
  /\ wstate = "writable"
  /\ wstate' = "errored"
  /\ UNCHANGED otherVars
  /\ UNCHANGED <<pc, pending, lastContent, lastThinking, upstream, out,
                 closeCalled, escaped, exitVia, nLines, fed, emitted, chain,
                 lastEv, sawFinish, inflight, issued, yielded>>

Next ==
  \/ WriteInitial
  \/ \E n \in 0..MaxLines : ReadChunk(n)
  \/ ReadDone
  \/ ReadError
  \/ \E k \in NonEventKinds : SkipLine(k)
  \/ \E s \in Strs : ContentEvent(s)
  \/ \E s \in Strs : ThinkEvent(s)
  \/ \E p \in SearchPayloads : SearchEvent(p)
  \/ FinishEvent
  \/ WriteDone
  \/ \E e \in Events : IgnoredEvent(e)
  \/ Finally
  \/ WriteSettled
  \/ ClientDisconnect

Spec == Init /\ [][Next]_vars

\* The task's own steps are taken: a pending write settles, and the finally
\* block runs as soon as the try block is left.
FairSpec == Spec /\ WF_vars(Finally) /\ WF_vars(WriteSettled)

\* ------------------------------------------------- the typed draft's handler
\* The stream handler of the typed server (lines 470-578).  Its read loop,
\* frame parsing, finish branch, catch and finally are those of the handler
\* above; it writes nothing before the loop, takes a content or think
\* event only when its payload is truthy, and has no reset.

\* const reader = response.body?.getReader(); ... while (true): the task
\* goes from its start to the first read without a write.
TypedStart ==
  /\ pc = "start"
  /\ Awaited
  /\ UNCHANGED otherVars
  /\ pc' = "read"
  /\ UNCHANGED <<pending, lastContent, lastThinking, wstate, upstream, out,
                 closeCalled, escaped, exitVia, nLines, fed, emitted, chain,
                 lastEv, sawFinish, inflight, issued, yielded>>

\* event.content.startsWith(last) ? event.content.substring(last.length)
\*                                 : event.content
TypedDelta(last, full) ==
  IF StartsWith(full, last) THEN Substring(full, Len(last)) ELSE full

\* if (delta) { lastContent = event.content; ... }
TypedNextLast(last, full) ==
  IF HasDelta(TypedDelta(last, full)) THEN full ELSE last

TypedTracked(ch, last, full) ==
  LET d == TypedDelta(last, full)
      e == IF HasDelta(d) THEN d ELSE <<>>
  IN  /\ fed' = [fed EXCEPT ![ch] = full]
      /\ chain' = [chain EXCEPT ![ch] = @ /\ StartsWith(full, fed[ch])]
      /\ emitted' = [emitted EXCEPT ![ch] = @ \o e]
      /\ lastEv' = [ch |-> ch, before |-> last, base |-> last, full |-> full,
                    delta |-> d, after |-> TypedNextLast(last, full)]
      /\ yielded' = IF HasDelta(d) THEN Append(yielded, [src |-> ch, text |-> d])
                                   ELSE yielded

\* else if (event.type === "content" && event.content)
TypedContentEvent(full) ==
  /\ pc = "line"
  /\ Awaited
  /\ UNCHANGED otherVars
  /\ Len(full) > 0
  /\ lastContent' = TypedNextLast(lastContent, full)
  /\ IF HasDelta(TypedDelta(lastContent, full))
       THEN Write(UpdateChunk(DeltaPayload("content"), TypedDelta(lastContent, full), "content"))
       ELSE NoWrite
  /\ TypedTracked("content", lastContent, full)
  /\ NextLine
  /\ UNCHANGED <<lastThinking, wstate, upstream, closeCalled, escaped,
                 exitVia, nLines, sawFinish>>

\* else if (event.type === "think" && event.content)
TypedThinkEvent(full) ==
  /\ pc = "line"
  /\ Awaited
  /\ UNCHANGED otherVars
  /\ Len(full) > 0
  /\ lastThinking' = TypedNextLast(lastThinking, full)
  /\ IF HasDelta(TypedDelta(lastThinking, full))
       THEN Write(UpdateChunk(DeltaPayload("think"), TypedDelta(lastThinking, full), "think"))
       ELSE NoWrite
  /\ TypedTracked("think", lastThinking, full)
  /\ NextLine
  /\ UNCHANGED <<lastContent, wstate, upstream, closeCalled, escaped,
                 exitVia, nLines, sawFinish>>

\* The search block of the typed draft: the list ends with one "\n".
TypedSearchLog(p) ==
  IF Len(p.query) > 0 THEN <<"\n> Searching: ">> \o p.query \o <<"\n\n">>
  ELSE IF p.isList THEN Entries(Slice(p.resultList), 1) \o <<"\n">>
  ELSE <<>>

\* if (event.type === "search" && event.content)
TypedSearchEvent(p) ==
  /\ pc = "line"
  /\ Awaited
  /\ UNCHANGED otherVars
  /\ p.present
  /\ IF HasLog(TypedSearchLog(p))
       THEN Write(UpdateChunk(DeltaPayload("search"), TypedSearchLog(p), "search"))
       ELSE NoWrite
  /\ yielded' = IF HasLog(TypedSearchLog(p))
                  THEN Append(yielded, [src |-> "search", text |-> TypedSearchLog(p)])
                  ELSE yielded
  /\ NextLine
  /\ UNCHANGED <<lastContent, lastThinking, wstate, upstream, closeCalled,
                 escaped, exitVia, nLines, fed, emitted, chain, lastEv,
                 sawFinish>>

\* An event no branch of the typed draft takes: an unknown type, or a
\* content, think or search event whose payload is falsy.
TypedIgnoredEvent(e) ==
  /\ pc = "line"
  /\ Awaited
  /\ UNCHANGED otherVars
  /\ ~(e.type \in Channels /\ e.isStr /\ Len(e.content) > 0)
  /\ ~(e.type = "search" /\ e.search.present)
  /\ e.type # "finish"
  /\ NextLine
  /\ UNCHANGED <<lastContent, lastThinking, wstate, upstream, out,
                 closeCalled, escaped, exitVia, nLines, fed, emitted, chain,
                 lastEv, sawFinish, inflight, issued, yielded>>

TypedNext ==
  \/ TypedStart
  \/ \E n \in 0..MaxLines : ReadChunk(n)
  \/ ReadDone
  \/ ReadError
  \/ \E k \in NonEventKinds : SkipLine(k)
  \/ \E s \in Strs : TypedContentEvent(s)
  \/ \E s \in Strs : TypedThinkEvent(s)
  \/ \E p \in SearchPayloads : TypedSearchEvent(p)
  \/ FinishEvent
  \/ WriteDone
  \/ \E e \in Events : TypedIgnoredEvent(e)
  \/ Finally
  \/ WriteSettled
  \/ ClientDisconnect

TypedSpec == Init /\ [][TypedNext]_vars

\* ------------------------------------------------------------ frame parser
\* The read loop at the level of characters (lines 1426-1438): the text of
\* the upstream arrives in chunks cut anywhere, and every complete line is
\* trimmed, tested for the prefix, stripped, parsed and handed to the
\* tracker.  The client stays connected here.

\* "data:"
Prefix == <<"d", "a", "t", "a", ":">>

\* What String.prototype.trim removes.
Blank == {" ", "\r"}

RECURSIVE TrimLeft(_)
TrimLeft(t) ==
  IF t # <<>> /\ Head(t) \in Blank THEN TrimLeft(Tail(t)) ELSE t

RECURSIVE TrimRight(_)
TrimRight(t) ==
  IF t # <<>> /\ t[Len(t)] \in Blank THEN TrimRight(SubSeq(t, 1, Len(t) - 1)) ELSE t

\* line.trim()
Trim(t) == TrimRight(TrimLeft(t))

\* t.indexOf(p) searched from position i on, counted from 1; 0 when p does
\* not occur.
RECURSIVE IndexFrom(_, _, _)
IndexFrom(t, p, i) ==
  IF i + Len(p) - 1 > Len(t) THEN 0
  ELSE IF SubSeq(t, i, i + Len(p) - 1) = p THEN i
  ELSE IndexFrom(t, p, i + 1)

\* t.indexOf(p)
IndexOf(t, p) == IndexFrom(t, p, 1)

\* line.replace("data:", ""): the first occurrence is removed.
ReplaceFirst(t, p) ==
  LET i == IndexOf(t, p)
  IN  IF i = 0 THEN t
      ELSE SubSeq(t, 1, i - 1) \o SubSeq(t, i + Len(p), Len(t))

\* buffer.split("\n"): the segments between newlines, the last one being
\* what follows the last newline.
RECURSIVE Split(_)
Split(t) ==
  LET i == IndexOf(t, <<"\n">>)
  IN  IF i = 0 THEN <<t>>
      ELSE <<SubSeq(t, 1, i - 1)>> \o Split(SubSeq(t, i + 1, Len(t)))

\* lines after lines.pop(): the complete lines.
Complete(segs) == SubSeq(segs, 1, Len(segs) - 1)

\* The same keeping nothing for the next chunk.
CarryNone(segs) == <<>>

\* buffer = lines.pop() || ""
Carry(segs) == segs[Len(segs)]

\* The event records of the JSON texts used here: {c} is a content event
\* and {t} a think event, both with the cumulative value "a".
EventLetters == {"c", "t"}

EventOf(x) ==
  IF x = "c" THEN Ev("content", TRUE, Run(1), NoPayload)
  ELSE Ev("think", TRUE, Run(1), NoPayload)

\* JSON.parse(jsonStr) followed by data.event: "record" with the event of
\* an object that has the field, "noevent" for an object without it, and
\* "throws" for a text that is not JSON.
JsonEvent(t) ==
  IF Len(t) = 3 /\ t[1] = "{" /\ t[2] \in EventLetters /\ t[3] = "}"
    THEN [kind |-> "record", event |-> EventOf(t[2])]
  ELSE IF t = <<"{", "}">>
    THEN [kind |-> "noevent", event |-> Ev("other", FALSE, <<>>, NoPayload)]
  ELSE [kind |-> "throws", event |-> Ev("other", FALSE, <<>>, NoPayload)]

\* What the loop body works on: the tracker, the writes, the records.
ParserState(lc, lt, o, d) ==
  [lastContent |-> lc, lastThinking |-> lt, out |-> o, decoded |-> d]

\* The branches of lines 1444-1470 and the write of 1498-1503 for one
\* decoded content or think event.
Handle(st, e) ==
  IF e.type = "content"
    THEN LET d == Delta(st.lastContent, e.content)
         IN  ParserState(NextLast(st.lastContent, e.content), st.lastThinking,
                         IF HasDelta(d)
                           THEN Append(st.out, UpdateChunk(DeltaPayload("content"), d, "content"))
                           ELSE st.out,
                         Append(st.decoded, e))
    ELSE LET d == Delta(st.lastThinking, e.content)
         IN  ParserState(st.lastContent, NextLast(st.lastThinking, e.content),
                         IF HasDelta(d)
                           THEN Append(st.out, UpdateChunk(DeltaPayload("think"), d, "think"))
                           ELSE st.out,
                         Append(st.decoded, e))

\* line.replace("data:", "").trim()
JsonStr(line) == Trim(ReplaceFirst(line, Prefix))

\* The body of the for loop for one line.
ProcessLine(st, line) ==
  IF ~StartsWith(Trim(line), Prefix) THEN st
  ELSE IF JsonStr(line) = <<>> THEN st
  ELSE IF JsonEvent(JsonStr(line)).kind # "record" THEN st
  ELSE Handle(st, JsonEvent(JsonStr(line)).event)

\* The same with the try around the whole for loop: a line that throws
\* ends the loop over the chunk's lines.
RECURSIVE ProcessLinesAbort(_, _)
ProcessLinesAbort(st, ls) ==
  IF ls = <<>> THEN st
  ELSE IF StartsWith(Trim(Head(ls)), Prefix) /\ JsonStr(Head(ls)) # <<>>
            /\ JsonEvent(JsonStr(Head(ls))).kind = "throws"
    THEN st
  ELSE ProcessLinesAbort(ProcessLine(st, Head(ls)), Tail(ls))

\* for (const line of lines) { ... }
RECURSIVE ProcessLines(_, _)
ProcessLines(st, ls) ==
  IF ls = <<>> THEN st
  ELSE ProcessLines(ProcessLine(st, Head(ls)), Tail(ls))

\* The lines the upstream sends here, without their newline: events, with
\* and without blanks around the prefix and the payload, and the four kinds
\* of line that carry no event record.
SampleLines ==
  { <<"d", "a", "t", "a", ":", "{", "c", "}">>,
    <<" ", "d", "a", "t", "a", ":", " ", "{", "t", "}", "\r">>,
    <<"{", "c", "}">>,
    <<"d", "a", "t", "a", ":", " ">>,
    <<"d", "a", "t", "a", ":", "{", "c">>,
    <<"d", "a", "t", "a", ":", "{", "}">> }

RECURSIVE Join(_)
Join(ls) ==
  IF ls = <<>> THEN <<>> ELSE Head(ls) \o <<"\n">> \o Join(Tail(ls))

\* The upstream texts: up to MaxFrames lines, each ended by a newline.
Texts ==
  UNION {{Join(ls) : ls \in [1..n -> SampleLines]} : n \in 0..MaxFrames}

\* The task is in its read loop, the initial chunk written, and the
\* upstream has a text to send.
ParseInit ==
  /\ pc = "read"
  /\ pending = 0
  /\ lastContent = <<>>
  /\ lastThinking = <<>>
  /\ wstate = "writable"
  /\ upstream = "open"
  /\ out = <<InitialChunk>>
  /\ closeCalled = FALSE
  /\ escaped = FALSE
  /\ exitVia = "none"
  /\ nLines = 0
  /\ fed = [c \in Channels |-> <<>>]
  /\ emitted = [c \in Channels |-> <<>>]
  /\ chain = [c \in Channels |-> TRUE]
  /\ lastEv = NoEv
  /\ sawFinish = FALSE
  /\ inflight = 0
  /\ issued = <<InitialChunk>>
  /\ yielded = <<>>
  /\ whole \in Texts
  /\ began = "none"
  /\ pos = 0
  /\ buffer = <<>>
  /\ decoded = <<>>
  /\ RestIdle

\* reader.read() returns the next k characters: they are appended to the
\* buffer, the buffer is split, and the complete lines are processed.
Feed(k) ==
  /\ pc = "read"
  /\ pos + k <= Len(whole)
  /\ LET segs == Split(buffer \o SubSeq(whole, pos + 1, pos + k))
         st == ProcessLines(ParserState(lastContent, lastThinking, out, decoded),
                            Complete(segs))
     IN  /\ buffer' = Carry(segs)
         /\ lastContent' = st.lastContent
         /\ lastThinking' = st.lastThinking
         /\ out' = st.out
         /\ issued' = st.out
         /\ decoded' = st.decoded
  /\ began' = IF pos = 0 THEN "start"
              ELSE IF whole[pos] = "\n" THEN "line" ELSE "mid"
  /\ pos' = pos + k
  /\ UNCHANGED <<pc, pending, wstate, upstream, closeCalled, escaped, exitVia,
                 nLines, fed, emitted, chain, lastEv, sawFinish, inflight,
                 yielded, whole>>
  /\ UNCHANGED restVars

\* The same with what is left in the buffer handled as a last line before
\* the loop is left.
FeedDoneFlush ==
  /\ pos = Len(whole)
  /\ pc = "read"
  /\ LET st == ProcessLine(ParserState(lastContent, lastThinking, out, decoded),
                           buffer)
         o == IF JsonStr(buffer) = <<"{", "f", "}">>
                THEN out \o <<FinishChunk, DoneMarker>>
                ELSE st.out
     IN  /\ lastContent' = st.lastContent
         /\ lastThinking' = st.lastThinking
         /\ decoded' = st.decoded
         /\ out' = o
         /\ issued' = o
  /\ buffer' = <<>>
  /\ upstream' = "done"
  /\ pc' = "finally"
  /\ exitVia' = "done"
  /\ UNCHANGED <<pending, wstate, closeCalled, escaped, nLines, fed, emitted,
                 chain, lastEv, sawFinish, inflight, yielded, whole, began, pos>>
  /\ UNCHANGED restVars

\* The text has been delivered: reader.read() returns done.
FeedDone ==
  /\ pos = Len(whole)
  /\ ReadDone

ParseNext ==
  \/ \E k \in 1..Len(whole) : Feed(k)
  \/ FeedDone
  \/ Finally

ParseSpec == ParseInit /\ [][ParseNext]_vars

\* ------------------------------------------------------------ reading `out`
RECURSIVE CountKind(_, _)
CountKind(seq, k) ==
  IF seq = <<>> THEN 0
  ELSE (IF Head(seq).kind = k THEN 1 ELSE 0) + CountKind(Tail(seq), k)

RECURSIVE TextOf(_, _)
TextOf(seq, s) ==
  IF seq = <<>> THEN <<>>
  ELSE (IF Head(seq).kind = "update" /\ Head(seq).src = s THEN Head(seq).text ELSE <<>>)
         \o TextOf(Tail(seq), s)

LastSeen(ch) == IF ch = "content" THEN lastContent ELSE lastThinking

Tracker == lastEv.ch \in Channels

\* ------------------------------------------------------------ C1
\* C1: on each channel, as long as every cumulative value fed so far starts
\* with the one fed before it, the deltas computed for the channel,
\* concatenated in order, are the last value fed; and while the client is
\* there, so are the deltas written for it.
C1_PrefixChainConcat ==
  \A ch \in Channels :
    chain[ch] =>
      /\ emitted[ch] = fed[ch]
      /\ wstate # "errored" => TextOf(out, ch) = fed[ch]

\* A chain on the answer channel whose last event emitted a proper suffix.
C1_Witness ==
  /\ lastEv.ch = "content"
  /\ chain["content"]
  /\ Len(lastEv.before) > 0
  /\ Len(lastEv.delta) > 0
  /\ Len(lastEv.delta) < Len(lastEv.full)
  /\ wstate = "writable"

\* ------------------------------------------------------------ C2
\* C2: when a cumulative value arrives that is shorter than the channel's
\* last-seen value, the delta is computed against the empty string and is
\* the new value in full, and the last-seen value ends as the new value.
C2_ResetOnShrink ==
  (Tracker /\ Len(lastEv.full) < Len(lastEv.before)) =>
    /\ lastEv.base = <<>>
    /\ lastEv.delta = lastEv.full
    /\ lastEv.after = lastEv.full
    /\ LastSeen(lastEv.ch) = lastEv.full

\* A non-empty value shorter than the last-seen one, emitted in full.
C2_Witness ==
  /\ Tracker
  /\ Len(lastEv.full) < Len(lastEv.before)
  /\ Len(lastEv.full) > 0
  /\ Len(out) > 0
  /\ out[Len(out)] = UpdateChunk({IF lastEv.ch = "content" THEN "content" ELSE "reasoning_content"},
                                 lastEv.full, lastEv.ch)

\* ------------------------------------------------------------ C3
\* C3 as stated: an event whose computed delta is empty leaves the channel's
\* last-seen value as it was, also when the new value is empty and the
\* last-seen value is not.
C3_Original ==
  (Tracker /\ lastEv.delta = <<>>) => lastEv.after = lastEv.before

\* C3 as amended: an event whose computed delta is empty leaves the channel's
\* last-seen value as it was, except when the new value is shorter than the
\* last-seen value (it is then the empty string): the last-seen value is
\* then reset to empty.
C3_EmptyDeltaFrame ==
  (Tracker /\ lastEv.delta = <<>>) =>
    /\ LastSeen(lastEv.ch) = lastEv.after
    /\ IF Len(lastEv.full) < Len(lastEv.before)
         THEN lastEv.full = <<>> /\ lastEv.after = <<>>
         ELSE lastEv.after = lastEv.before

\* A repeated non-empty value: empty delta, last-seen value kept.
C3_Witness ==
  /\ Tracker
  /\ lastEv.delta = <<>>
  /\ Len(lastEv.before) > 0
  /\ lastEv.full = lastEv.before
  /\ LastSeen(lastEv.ch) = lastEv.before

\* ------------------------------------------------------------ C4
\* C4: every write other than the initial chunk, the finish chunk and the
\* terminal marker is an update chunk with a non-empty text in one of the
\* fields content and reasoning_content.
C4_NoEmptyUpdate ==
  \A i \in 1..Len(out) :
    /\ out[i].kind \in {"initial", "update", "finish", "done"}
    /\ out[i].kind = "update" =>
         /\ Len(out[i].text) > 0
         /\ out[i].fields \in {{"content"}, {"reasoning_content"}}

\* An update chunk was written and the last tracked event had an empty delta.
C4_Witness ==
  /\ Tracker
  /\ lastEv.delta = <<>>
  /\ CountKind(out, "update") > 0
  /\ wstate = "writable"

\* ------------------------------------------------------------ C5
\* C5: when a cumulative value is not shorter than the channel's last-seen
\* value and does not start with it, the delta is the new value in full and
\* the last-seen value becomes the new value.
C5_MismatchFallback ==
  (Tracker /\ Len(lastEv.full) >= Len(lastEv.before)
           /\ ~StartsWith(lastEv.full, lastEv.before)) =>
    /\ lastEv.delta = lastEv.full
    /\ lastEv.after = lastEv.full
    /\ LastSeen(lastEv.ch) = lastEv.full

\* A reasoning value of the length of the last-seen one that differs from it.
C5_Witness ==
  /\ lastEv.ch = "think"
  /\ Len(lastEv.full) = Len(lastEv.before)
  /\ lastEv.full # lastEv.before
  /\ lastThinking = lastEv.full

\* ------------------------------------------------------------ C6
LastKind == IF out = <<>> THEN "none" ELSE out[Len(out)].kind

\* C6 as stated: whatever the upstream does, the terminal marker has been
\* written exactly once when the output is closed.
C6_Original == pc = "done" => CountKind(out, "done") = 1

\* C6 as amended: the terminal marker is written at most once; when the
\* task has ended it has been written exactly once if the loop was left by
\* the return of the finish branch, and not at all if the upstream reported
\* done, the read failed or the initial write was rejected.
C6_TerminalMarker ==
  /\ CountKind(out, "done") <= 1
  /\ pc = "done" =>
       /\ exitVia \in {"finish", "done", "readErr", "writeErr"}
       /\ CountKind(out, "done") = (IF exitVia = "finish" THEN 1 ELSE 0)

\* A finished stream: one marker, writer closed.
C6_Witness ==
  /\ pc = "done"
  /\ exitVia = "finish"
  /\ CountKind(out, "done") = 1
  /\ wstate = "closed"

\* ------------------------------------------------------------ C7
\* C7 as stated: when a finish event was processed, exactly one terminal
\* marker has been written by the end of the task and it is the last
\* write; the marker is never written twice.
C7_Original ==
  /\ CountKind(out, "done") <= 1
  /\ (pc = "done" /\ sawFinish) =>
       (CountKind(out, "done") = 1 /\ LastKind = "done")

\* C7 as amended: the terminal marker is never written twice and nothing
\* is written after it; when a finish event was processed and the client
\* accepted the writes of its branch, exactly one marker has been written;
\* a finish event processed after the client has gone writes none.
C7_FinishMarkerLast ==
  /\ CountKind(out, "done") <= 1
  /\ CountKind(out, "done") = 1 => (LastKind = "done" /\ sawFinish)
  /\ (pc = "done" /\ sawFinish /\ wstate = "closed") => CountKind(out, "done") = 1
  /\ (pc = "done" /\ exitVia # "finish") => CountKind(out, "done") = 0

\* A finish event after two tracked events, marker last, writer closed.
C7_Witness ==
  /\ pc = "done"
  /\ sawFinish
  /\ wstate = "closed"
  /\ Len(out) >= 4
  /\ LastKind = "done"

\* ------------------------------------------------------------ C8
\* C8 as stated: every streaming response holds exactly one finish chunk,
\* the write after it is the terminal marker, and nothing else follows.
C8_Original ==
  pc = "done" =>
    /\ CountKind(out, "finish") = 1
    /\ \A i \in 1..Len(out) :
         out[i].kind = "finish" =>
           (i + 1 = Len(out) /\ out[i + 1].kind = "done")

\* C8 as amended: a streaming response holds at most one finish chunk, and
\* holds one exactly when a finish event was processed while the client
\* accepted the write; the only write that can follow the finish chunk is
\* the terminal marker, which is then the last write, and the marker is
\* never written without the finish chunk right before it.
C8_FinishChunk ==
  /\ CountKind(out, "finish") <= 1
  /\ CountKind(out, "finish") = 1 => sawFinish
  /\ \A i \in 1..Len(out) :
       /\ out[i].kind = "finish" =>
            (i = Len(out) \/ (i + 1 = Len(out) /\ out[i + 1].kind = "done"))
       /\ out[i].kind = "done" => (i > 1 /\ out[i - 1].kind = "finish")
  /\ (pc = "done" /\ wstate = "closed") =>
       (CountKind(out, "finish") = 1 <=> sawFinish)

\* A finish chunk written after an update chunk, followed by the marker.
C8_Witness ==
  /\ Len(out) >= 4
  /\ out[Len(out) - 2].kind = "update"
  /\ out[Len(out) - 1].kind = "finish"
  /\ out[Len(out)].kind = "done"
  /\ pc = "done"

\* ------------------------------------------------------------ C9
\* C9: once the read loop has been left, by the return of the finish
\* branch, by done, by a failed read or by a rejected write, the task is in
\* or past its finally block; it cannot stop before the close (the close,
\* or the settling of the write it waits for, can be taken), and when it
\* has ended, writer.close() was called and the output is not open.
C9_CloseOnAllPaths ==
  /\ exitVia # "none" => pc \in {"finally", "done"}
  /\ pc = "finally" => (ENABLED Finally \/ ENABLED WriteSettled)
  /\ pc = "done" =>
       /\ exitVia # "none"
       /\ closeCalled
       /\ wstate \in {"closed", "errored"}
  /\ closeCalled => pc = "done"

\* The read failed after an update chunk and the writer was closed.
C9_Witness ==
  /\ pc = "done"
  /\ exitVia = "readErr"
  /\ closeCalled
  /\ wstate = "closed"
  /\ CountKind(out, "update") > 0

\* C9, as a property of behaviours: leaving the read loop leads to the
\* close.
C9_LeadsToClose == (exitVia # "none") ~> (closeCalled /\ wstate # "writable")

\* ------------------------------------------------------------ C10
\* C10: when the upstream ends or a read fails after content events and
\* before any finish event, the task ends with the output closed, the
\* chunks written so far delivered, no finish chunk written, and no
\* rejection leaving the task, the one of the close included.
C10_AbortWithoutFinish ==
  (pc = "done" /\ exitVia \in {"done", "readErr"} /\ ~sawFinish
     /\ Len(fed["content"]) > 0) =>
    /\ closeCalled
    /\ CountKind(out, "finish") = 0
    /\ CountKind(out, "done") = 0
    /\ ~escaped

\* ------------------------------------------------------------ C11
\* A write was rejected: the writer took fewer writes than were issued.
Rejected == Len(issued) > Len(out)

\* A step in which reader.read() returned: lines, the end, or a failure.
ReadStep == nLines' > nLines \/ upstream' # upstream

\* C11: once a write to the output has been rejected because the client has
\* gone, the task reads nothing more from the upstream.
C11_NoReadAfterReject == [][Rejected => ~ReadStep]_vars

\* ------------------------------------------------------------ C12
\* The lifecycle of the request: START until the initial chunk is written,
\* STREAMING while the task is in its read loop, FINISHED once the loop was
\* left by the return of the finish branch, ABORTED once it was left in any
\* other way.
Phase ==
  IF exitVia = "finish" THEN "FINISHED"
  ELSE IF exitVia # "none" THEN "ABORTED"
  ELSE IF pc = "start" THEN "START"
  ELSE "STREAMING"

Terminal == {"FINISHED", "ABORTED"}

\* Nothing is translated and nothing is written in this step.
Quiet ==
  /\ out' = out
  /\ issued' = issued
  /\ nLines' = nLines
  /\ lastContent' = lastContent
  /\ lastThinking' = lastThinking

\* The terminal phase is absorbing, and the writer is closed in it, once.
Absorbing ==
  /\ Phase \in Terminal => (Phase' = Phase /\ Quiet)
  /\ closeCalled' # closeCalled => (Phase \in Terminal /\ ~closeCalled)
  /\ closeCalled => (closeCalled' /\ wstate' = wstate /\ pc' = "done")

\* C12 as stated: a request moves START -> STREAMING -> FINISHED or ABORTED;
\* the terminal phase is absorbing, STREAMING is left once and the output
\* is closed once.
C12_Original ==
  [][/\ Phase = "START" => Phase' \in {"START", "STREAMING"}
     /\ Phase = "STREAMING" => Phase' \in {"STREAMING"} \cup Terminal
     /\ Absorbing]_vars

\* C12 as amended: a request moves START -> STREAMING -> FINISHED or
\* ABORTED, or START -> ABORTED when the write of the initial chunk is
\* rejected, with nothing written; the terminal phase is absorbing (nothing
\* is translated or written in it), so STREAMING is left once, and the
\* output is closed in the terminal phase, once.
C12_Lifecycle ==
  [][/\ Phase = "START" =>
          \/ Phase' \in {"START", "STREAMING"}
          \/ Phase' = "ABORTED" /\ exitVia' = "writeErr" /\ out' = <<>>
     /\ Phase = "STREAMING" => Phase' \in {"STREAMING"} \cup Terminal
     /\ Absorbing]_vars

\* The initial chunk was rejected and the writer's close was called.
C12_Witness ==
  /\ pc = "done"
  /\ Phase = "ABORTED"
  /\ exitVia = "writeErr"
  /\ closeCalled
  /\ out = <<>>

\* ------------------------------------------------------------ C13
\* C13: once a finish event has entered its branch, no later line changes a
\* channel's last-seen value or has an update chunk written for it.
C13_FinishStops ==
  [][sawFinish =>
       /\ lastContent' = lastContent
       /\ lastThinking' = lastThinking
       /\ CountKind(issued', "update") = CountKind(issued, "update")]_vars

\* ------------------------------------------------------------ C14
\* C14: the first write of a streaming response is the initial chunk; it is
\* issued before the first upstream read returns and at most once, and a
\* response that was closed with the client there holds it exactly once,
\* also when the upstream sent no line at all.
C14_InitialChunkFirst ==
  /\ Len(issued) > 0 => issued[1] = InitialChunk
  /\ Len(out) > 0 => out[1] = InitialChunk
  /\ CountKind(issued, "initial") <= 1
  /\ (nLines > 0 \/ upstream # "open") => CountKind(out, "initial") = 1
  /\ (pc = "done" /\ wstate = "closed") => CountKind(out, "initial") = 1

\* ------------------------------------------------------------ C15
\* The parser's working state now, and before the first read.
Current == ParserState(lastContent, lastThinking, out, decoded)

Start == ParserState(<<>>, <<>>, <<InitialChunk>>, <<>>)

\* The complete lines among the characters delivered so far.
Delivered == Complete(Split(SubSeq(whole, 1, pos)))

\* The line starts with the prefix after trimming, is not empty after the
\* prefix, is valid JSON and has an event field.
DecodesToEvent(line) ==
  /\ StartsWith(Trim(line), Prefix)
  /\ JsonStr(line) # <<>>
  /\ JsonEvent(JsonStr(line)).kind = "record"

\* C15: a line that does not decode to an event record writes nothing,
\* leaves both last-seen values and the decoded records as they are, and
\* the lines around it, in the same or in other read chunks, are processed
\* as if it were absent: what has been written, tracked and decoded is what
\* the event lines alone give.
C15_NonEventNoOp ==
  /\ \A l \in SampleLines : ~DecodesToEvent(l) => ProcessLine(Current, l) = Current
  /\ Current = ProcessLines(Start, SelectSeq(Delivered, DecodesToEvent))

\* One read chunk held a line that is not JSON and an event line after it,
\* and the event was decoded and written.
C15_Witness ==
  /\ began = "start"
  /\ pos = Len(whole)
  /\ Len(Delivered) = 2
  /\ StartsWith(Delivered[1], Prefix)
  /\ JsonEvent(JsonStr(Delivered[1])).kind = "throws"
  /\ DecodesToEvent(Delivered[2])
  /\ Len(decoded) = 1
  /\ Len(out) = 2

\* ------------------------------------------------------------ C16
\* C16: however the text is cut into read chunks, after each read the
\* buffer holds what follows the last newline delivered, and what has been
\* decoded, tracked and written is what the complete lines of the text
\* delivered so far, split on newlines once, give.
C16_ChunkIndependence ==
  LET segs == Split(SubSeq(whole, 1, pos))
  IN  /\ buffer = segs[Len(segs)]
      /\ Current = ProcessLines(Start, SubSeq(segs, 1, Len(segs) - 1))

\* The last read began in the middle of the last of two event lines, and
\* both lines were decoded.
C16_Witness ==
  /\ began = "mid"
  /\ Len(Delivered) = 2
  /\ pos = Len(whole)
  /\ Len(decoded) = 2

\* ------------------------------------------------------------ C17
IsUpdate(c) == c.kind = "update"

\* The update chunk of an event that set hasUpdate: deltaPayload of the
\* event's branch.
ChunkOf(y) ==
  UpdateChunk({IF y.src = "content" THEN "content" ELSE "reasoning_content"},
              y.text, y.src)

\* C17: the update chunks the task writes are, one for one and in the same
\* order, the chunks of the events that computed a non-empty delta or
\* block; what the writer accepted is an initial part of what was written,
\* and all of it while the client is there.
C17_OrderedOneToOne ==
  /\ SelectSeq(issued, IsUpdate) = [i \in 1..Len(yielded) |-> ChunkOf(yielded[i])]
  /\ StartsWith(issued, out)
  /\ wstate # "errored" => out = issued

\* A reasoning delta, a search block and an answer delta, written in the
\* order of their events.
C17_Witness ==
  /\ Len(yielded) = 3
  /\ yielded[1].src = "think"
  /\ yielded[2].src = "search"
  /\ yielded[3].src = "content"
  /\ Len(out) = 4
  /\ out[4] = ChunkOf(yielded[3])

\* ------------------------------------------------------------ C18
\* C18: a read returns to the task only when no write is pending and the
\* writer has accepted every chunk written before it.
C18_NoReadAhead == [][ReadStep => (inflight = 0 /\ out = issued)]_vars

\* What holds of C18 whether the client is there or not: at most one write
\* is pending, and none is when a read returns.
C18_OnePending == inflight <= 1 /\ (inflight = 1 => Len(issued) > 0)

\* ------------------------------------------------------------ C19
\* C19: every update chunk written has exactly one field in its delta; the
\* chunk of a content event has the field content, the chunk of a think
\* event the field reasoning_content, and no update chunk has a role field.
C19_ChannelRouting ==
  \A i \in 1..Len(issued) :
    issued[i].kind = "update" =>
      /\ Cardinality(issued[i].fields) = 1
      /\ "role" \notin issued[i].fields
      /\ issued[i].src = "content" => issued[i].fields = {"content"}
      /\ issued[i].src = "think" => issued[i].fields = {"reasoning_content"}
      /\ issued[i].src \in {"content", "think", "search"}

\* Both an answer delta and a reasoning delta were written and accepted.
C19_Witness ==
  /\ \E i \in 1..Len(out) : out[i].kind = "update" /\ out[i].src = "content"
  /\ \E i \in 1..Len(out) : out[i].kind = "update" /\ out[i].src = "think"
  /\ wstate = "writable"

\* ------------------------------------------------------------ C20
\* What a step may do to channel ch: nothing, or, in an event of the channel
\* itself, take its last-seen value and its deltas from that value and the
\* event's cumulative value alone.
OwnStep(ch) ==
  /\ LastSeen(ch)' # LastSeen(ch) =>
       /\ lastEv'.ch = ch
       /\ LastSeen(ch)' = NextLast(LastSeen(ch), lastEv'.full)
  /\ emitted'[ch] # emitted[ch] =>
       /\ lastEv'.ch = ch
       /\ emitted'[ch] = emitted[ch] \o Delta(LastSeen(ch), lastEv'.full)
  /\ (lastEv' # lastEv /\ lastEv'.ch # ch) =>
       (LastSeen(ch)' = LastSeen(ch) /\ emitted'[ch] = emitted[ch])

\* C20: an event of one channel never changes the other channel's last-seen
\* value, and the deltas of a channel are computed from the channel's own
\* last-seen value and cumulative values alone, whatever events of the
\* other channel, and whatever other lines, come in between.
C20_ChannelIndependence == [][\A ch \in Channels : OwnStep(ch)]_vars

\* A reasoning delta computed between two answer deltas.
C20_Witness ==
  /\ Len(yielded) = 3
  /\ yielded[1].src = "content"
  /\ yielded[2].src = "think"
  /\ yielded[3].src = "content"
  /\ lastThinking # <<>>
  /\ lastContent # lastThinking

\* ------------------------------------------------------ non-stream branch
NsCap == 3          \* resultList.slice(0,3)

\* resultList.slice(0,3)
NsSlice(list) == SubSeq(list, 1, Min(Len(list), NsCap))

\* `[${i+1}] ${item.title} (${item.url})\n`
NsEntryLine(k, item) ==
  <<"[", ToString(k), "] ", item.title, " (", item.url, ")\n">>

RECURSIVE NsEntries(_, _)
NsEntries(list, k) ==
  IF k > Len(list) THEN <<>>
  ELSE NsEntryLine(k, list[k]) \o NsEntries(list, k + 1)

\* What a search event adds to searchLogs: the query line, or the entries
\* and an empty line.
NsSearchLog(p) ==
  IF Len(p.query) > 0 THEN <<"Searching: ">> \o p.query \o <<"\n">>
  ELSE IF p.isList THEN NsEntries(NsSlice(p.resultList), 1) \o <<"\n">>
  ELSE <<>>

\* The same with the value added to what was collected.
NsTakeAppend(final, value) == final \o value

\* finalContent = event.content
NsTake(final, value) == value

\* if (searchLogs) finalThinking = searchLogs + "\n" + finalThinking
NsJoined(logs, thinking) ==
  IF Len(logs) > 0 THEN logs \o <<"\n">> \o thinking ELSE thinking

\* message: { content: finalContent || "", reasoning_content: finalThinking || null }
NsMessage(content, thinking) ==
  [content |-> content,
   reasoning_content |-> IF Len(thinking) > 0 THEN thinking ELSE Null]

\* What the non-stream branch leaves alone.
nsFrame ==
  UNCHANGED <<pc, wstate, out, closeCalled, escaped, exitVia, lastEv,
              inflight, issued, yielded, parseVars, pairVars, fetchVars,
              flagVars, lastVars>>

\* The branch is entered with the reader of line 1400 and empty locals; the
\* streaming task is not started.
NsInit ==
  /\ TaskInit
  /\ nsPc = "read"
  /\ finalContent = <<>>
  /\ finalThinking = <<>>
  /\ searchLogs = <<>>
  /\ result = Null
  /\ late = FALSE
  /\ PairIdle
  /\ FetchIdle
  /\ FlagIdle
  /\ LastIdle

\* The streaming tracker of lines 1444-1470 and 1489-1496 on the event the
\* non-stream branch is handling: what a streaming request would have
\* computed for the same events, up to the finish event that ends it.
Twin(e) ==
  IF sawFinish
    THEN /\ late' = (late \/ (e.type \in Channels /\ e.isStr))
         /\ UNCHANGED <<lastContent, lastThinking, fed, emitted, chain,
                        sawFinish>>
    ELSE /\ late' = late
         /\ sawFinish' = (e.type = "finish")
         /\ lastContent' = IF e.type = "content" /\ e.isStr
                             THEN NextLast(lastContent, e.content)
                             ELSE lastContent
         /\ lastThinking' = IF e.type = "think" /\ e.isStr
                              THEN NextLast(lastThinking, e.content)
                              ELSE lastThinking
         /\ IF e.type \in Channels /\ e.isStr
              THEN LET d == Delta(LET l == IF e.type = "content"
                                             THEN lastContent ELSE lastThinking
                                  IN  l, e.content)
                   IN  /\ fed' = [fed EXCEPT ![e.type] = e.content]
                       /\ chain' = [chain EXCEPT ![e.type] =
                                      @ /\ StartsWith(e.content, fed[e.type])]
                       /\ emitted' = [emitted EXCEPT ![e.type] =
                                        @ \o (IF HasDelta(d) THEN d ELSE <<>>)]
              ELSE UNCHANGED <<fed, emitted, chain>>

\* The next line of the chunk, or the next read.
NsNextLine ==
  /\ pending' = pending - 1
  /\ nsPc' = IF pending = 1 THEN "read" ELSE "line"

\* reader.read() returns a chunk that completes n lines.
NsReadChunk(n) ==
  /\ nsPc = "read"
  /\ nLines + n <= MaxEvents
  /\ pending' = n
  /\ nLines' = nLines + n
  /\ nsPc' = IF n = 0 THEN "read" ELSE "line"
  /\ UNCHANGED <<finalContent, finalThinking, searchLogs, result, late,
                 lastContent, lastThinking, fed, emitted, chain, sawFinish,
                 upstream>>
  /\ nsFrame

\* A line that carries no event record.
NsSkipLine(k) ==
  /\ nsPc = "line"
  /\ NsNextLine
  /\ UNCHANGED <<finalContent, finalThinking, searchLogs, result, late,
                 lastContent, lastThinking, fed, emitted, chain, sawFinish,
                 upstream, nLines>>
  /\ nsFrame

\* A line with an event record: the three ifs of lines 1546-1561.  There
\* is no branch for a finish event.
NsEvent(e) ==
  /\ nsPc = "line"
  /\ finalContent' = IF e.type = "content" /\ e.isStr
                        THEN NsTake(finalContent, e.content)
                        ELSE finalContent
  /\ finalThinking' = IF e.type = "think" /\ e.isStr
                         THEN NsTake(finalThinking, e.content)
                         ELSE finalThinking
  /\ searchLogs' = IF e.type = "search" /\ e.search.present
                      THEN searchLogs \o NsSearchLog(e.search)
                      ELSE searchLogs
  /\ Twin(e)
  /\ NsNextLine
  /\ UNCHANGED <<result, upstream, nLines>>
  /\ nsFrame

\* reader.read() returns done: break, join the search lines and return the
\* JSON object.
NsReadDone ==
  /\ nsPc = "read"
  /\ upstream' = "done"
  /\ finalThinking' = NsJoined(searchLogs, finalThinking)
  /\ result' = NsMessage(finalContent, NsJoined(searchLogs, finalThinking))
  /\ nsPc' = "returned"
  /\ UNCHANGED <<finalContent, searchLogs, late, lastContent, lastThinking,
                 fed, emitted, chain, sawFinish, pending, nLines>>
  /\ nsFrame

\* reader.read() rejects: the handler's catch answers with the 500 error.
NsReadError ==
  /\ nsPc = "read"
  /\ upstream' = "error"
  /\ nsPc' = "failed"
  /\ UNCHANGED <<finalContent, finalThinking, searchLogs, result, late,
                 lastContent, lastThinking, fed, emitted, chain, sawFinish,
                 pending, nLines>>
  /\ nsFrame

NsNext ==
  \/ \E n \in 0..MaxLines : NsReadChunk(n)
  \/ \E k \in NonEventKinds : NsSkipLine(k)
  \/ \E e \in Events : NsEvent(e)
  \/ NsReadDone
  \/ NsReadError

NonStreamSpec == NsInit /\ [][NsNext]_vars

\* ------------------------------------------------------ two requests
Requests == {1, 2}

\* What generateId() returns.
Ids == {"id1", "id2"}

\* The same with the variables declared once, outside the handler: every
\* request uses the same ones.
ScopeShared(r) == 1

\* Where the variables of request r live: const chatId, let buffer, let
\* lastContent and let lastThinking are declared inside the handler, so
\* every request has its own.
Scope(r) == r

\* The variables of a request that has not begun.
NotStarted ==
  [chatId |-> Null, buffer |-> <<>>, st |-> ParserState(<<>>, <<>>, <<>>, <<>>)]

\* The variables of a request at the start of its read loop: its id, the
\* empty buffer and last-seen values, the initial chunk written.
Fresh(id) ==
  [chatId |-> id, buffer |-> <<>>,
   st |-> ParserState(<<>>, <<>>, <<InitialChunk>>, <<>>)]

\* What the upstream of a request sends in one read: an answer line, a
\* reasoning line, or one of the two halves of an answer line.
Pieces ==
  { <<"d", "a", "t", "a", ":", "{", "c", "}", "\n">>,
    <<"d", "a", "t", "a", ":", "{", "t", "}", "\n">>,
    <<"d", "a", "t", "a", ":", "{">>,
    <<"c", "}", "\n">> }

\* One read of a request whose variables are c: lines 1426-1507.
AfterRead(c, piece) ==
  LET segs == Split(c.buffer \o piece)
  IN  [chatId |-> c.chatId,
       buffer |-> Carry(segs),
       st |-> ProcessLines(c.st, Complete(segs))]

pairFrame == UNCHANGED <<taskVars, parseVars, nsVars, fetchVars, flagVars, lastVars>>

PairInit ==
  /\ TaskInit
  /\ NsIdle
  /\ FetchIdle
  /\ FlagIdle
  /\ LastIdle
  /\ cells = [r \in Requests |-> NotStarted]
  /\ sent = [r \in Requests |-> [id |-> Null, text |-> <<>>, reads |-> 0]]

\* Request r arrives: chatId is generated, the task starts and writes the
\* initial chunk.
PairStart(r, id) ==
  /\ sent[r].id = Null
  /\ cells' = [cells EXCEPT ![Scope(r)] = Fresh(id)]
  /\ sent' = [sent EXCEPT ![r].id = id]
  /\ pairFrame

\* The reader of request r returns a piece of its upstream's text.
PairRead(r, piece) ==
  /\ sent[r].id # Null
  /\ sent[r].reads < MaxFeeds
  /\ cells' = [cells EXCEPT ![Scope(r)] = AfterRead(cells[Scope(r)], piece)]
  /\ sent' = [sent EXCEPT ![r].text = @ \o piece, ![r].reads = @ + 1]
  /\ pairFrame

PairNext ==
  \/ \E r \in Requests, id \in Ids : PairStart(r, id)
  \/ \E r \in Requests, piece \in Pieces : PairRead(r, piece)

PairSpec == PairInit /\ [][PairNext]_vars

\* ------------------------------------------------------ fetch handler
\* POST /v1/chat/completions, from the call of the handler to the Response
\* it returns.

\* The bodies a request comes with: text that is not JSON, JSON without
\* messages, JSON with an empty list of messages, and a chat request.
Bodies == {"unparsable", "nomessages", "emptymessages", "chat"}

\* The bodies transformPayload throws on: reqBody.messages is undefined, or
\* its last element is.
Untranslatable == {"nomessages", "emptymessages"}

\* The Authorization header of a request: none, the server's key as bearer
\* token, another bearer token.
Authorizations == {"none", "Bearer key", "Bearer other"}

\* process.env.SERVER_API_KEY: not set, or the key.
ServerKeys == {"unset", "key"}

\* The statuses the upstream answers with.
Statuses == {200, 400, 404, 429, 500, 503}

\* response.ok
Ok(status) == status >= 200 /\ status <= 299

\* The same with every error answered with status 500.
CreateErrorResponseFixed(status) ==
  [kind |-> "error", status |-> 500, json |-> TRUE, cors |-> TRUE]

\* createErrorResponse(status, message)
CreateErrorResponse(status) ==
  [kind |-> "error", status |-> status, json |-> TRUE, cors |-> TRUE]

\* new Response(readable, { headers: ... text/event-stream ... })
StreamResponse ==
  [kind |-> "stream", status |-> 200, json |-> FALSE, cors |-> TRUE]

\* new Response(JSON.stringify({ ... object: "chat.completion" ... }), ...)
JsonResponse ==
  [kind |-> "completion", status |-> 200, json |-> TRUE, cors |-> TRUE]

\* The same with req.json() awaited before the try block.
CaughtAfterParse(point) == point # "parse"

\* The places where the handler can fail are all inside the try block of
\* lines 1379-1602.
Caught(point) == point \in {"parse", "transform", "call", "text", "reader", "collect"}

fetchFrame == UNCHANGED <<taskVars, parseVars, nsVars, pairVars, flagVars, lastVars>>

FetchInit ==
  /\ TaskInit
  /\ NsIdle
  /\ PairIdle
  /\ FlagIdle
  /\ LastIdle
  /\ hpc = "start"
  /\ request \in [body : Bodies, stream : BOOLEAN,
                   authorization : Authorizations, apiKey : ServerKeys]
  /\ answer = NoAnswer
  /\ calls = 0
  /\ reply = NoReply
  /\ started = FALSE

\* A failure at `point`: the catch of line 1598 returns the 500 error;
\* outside a try block the rejection would go to the server.
Fails(point) ==
  /\ hpc' = IF Caught(point) THEN "returned" ELSE "threw"
  /\ reply' = IF Caught(point) THEN CreateErrorResponse(500) ELSE NoReply
  /\ UNCHANGED started

\* const body = await req.json()
HParse ==
  /\ hpc = "start"
  /\ IF request.body = "unparsable"
       THEN Fails("parse")
       ELSE hpc' = "parsed" /\ UNCHANGED <<reply, started>>
  /\ UNCHANGED <<request, answer, calls>>
  /\ fetchFrame

\* The same with a missing last message read as one without content
\* (lastMessage?.content): the translation goes through.
HTransformLenient ==
  /\ hpc = "parsed"
  /\ hpc' = "call"
  /\ UNCHANGED <<reply, started>>
  /\ UNCHANGED <<request, answer, calls>>
  /\ fetchFrame

\* const longcatPayload = transformPayload(body)
HTransform ==
  /\ hpc = "parsed"
  /\ IF request.body \in Untranslatable
       THEN Fails("transform")
       ELSE hpc' = "call" /\ UNCHANGED <<reply, started>>
  /\ UNCHANGED <<request, answer, calls>>
  /\ fetchFrame

\* await fetch(TARGET_URL, ...) rejects.
HCallRejected ==
  /\ hpc = "call"
  /\ calls' = calls + 1
  /\ Fails("call")
  /\ UNCHANGED <<request, answer>>
  /\ fetchFrame

\* await fetch(TARGET_URL, ...) gives a response: its status, whether it
\* has a body, and whether the body can be read to its end.
HCall(status, hasBody, readable) ==
  /\ hpc = "call"
  /\ calls' = calls + 1
  /\ answer' = [status |-> status, hasBody |-> hasBody, readable |-> readable]
  /\ hpc' = "check"
  /\ UNCHANGED <<request, reply, started>>
  /\ fetchFrame

\* if (!response.ok) { const text = await response.text(); ...
\*   return createErrorResponse(response.status, ...) }
HNotOk ==
  /\ hpc = "check"
  /\ ~Ok(answer.status)
  /\ IF answer.hasBody /\ ~answer.readable
       THEN Fails("text")
       ELSE /\ hpc' = "returned"
            /\ reply' = CreateErrorResponse(answer.status)
            /\ UNCHANGED started
  /\ UNCHANGED <<request, answer, calls>>
  /\ fetchFrame

\* const reader = response.body?.getReader(); if (!reader) throw ...;
\* if (isStream) the task is started and the stream Response returned.
HReader ==
  /\ hpc = "check"
  /\ Ok(answer.status)
  /\ IF ~answer.hasBody
       THEN Fails("reader")
       ELSE IF request.stream
         THEN /\ started' = TRUE
              /\ reply' = StreamResponse
              /\ hpc' = "returned"
         ELSE /\ hpc' = "collect"
              /\ UNCHANGED <<reply, started>>
  /\ UNCHANGED <<request, answer, calls>>
  /\ fetchFrame

\* The non-stream loop reads the body to its end and the JSON object is
\* returned, or a read rejects.
HCollect ==
  /\ hpc = "collect"
  /\ IF answer.readable
       THEN /\ reply' = JsonResponse
            /\ hpc' = "returned"
            /\ UNCHANGED started
       ELSE Fails("collect")
  /\ UNCHANGED <<request, answer, calls>>
  /\ fetchFrame

FetchNext ==
  \/ HParse
  \/ HTransform
  \/ HCallRejected
  \/ \E status \in Statuses, hasBody \in BOOLEAN, readable \in BOOLEAN :
       HCall(status, hasBody, readable)
  \/ HNotOk
  \/ HReader
  \/ HCollect

FetchSpec == FetchInit /\ [][FetchNext]_vars

\* ------------------------------------------------------ transformPayload
Upper == <<"A", "B", "C", "D", "E", "F", "G", "H", "I", "J", "K", "L", "M", "N", "O", "P", "Q", "R", "S", "T", "U", "V", "W", "X", "Y", "Z">>

Lower == <<"a", "b", "c", "d", "e", "f", "g", "h", "i", "j", "k", "l", "m", "n", "o", "p", "q", "r", "s", "t", "u", "v", "w", "x", "y", "z">>

\* The same without lower-casing.
ToLowerCaseNone(str) == str

\* str.toLowerCase()
ToLowerCase(str) ==
  [i \in 1..Len(str) |->
     IF \E k \in 1..Len(Upper) : Upper[k] = str[i]
       THEN Lower[CHOOSE k \in 1..Len(Upper) : Upper[k] = str[i]]
       ELSE str[i]]

\* str.includes(word)
Includes(str, word) == IndexOf(str, word) # 0

\* reqBody.model ? reqBody.model.toLowerCase() : "longcat-flash"
ModelNameOf(model) ==
  IF Len(model) > 0 THEN ToLowerCase(model)
  ELSE <<"l", "o", "n", "g", "c", "a", "t", "-", "f", "l", "a", "s", "h">>

\* reasonEnabled, searchEnabled and regenerate of the payload returned.
TransformPayload(model) ==
  LET name == ModelNameOf(model)
      isThinking == Includes(name, <<"t", "h", "i", "n", "k">>) \/ Includes(name, <<"r", "e", "a", "s", "o", "n">>)
      isSearch == Includes(name, <<"s", "e", "a", "r", "c", "h">>) \/ Includes(name, <<"o", "n", "l", "i", "n", "e">>)
  IN  [reasonEnabled |-> IF isThinking THEN 1 ELSE 0,
       searchEnabled |-> IF isSearch THEN 1 ELSE 0,
       regenerate |-> 0]

\* The words model names are put together from.
Parts ==
  { <<"t", "h", "i", "n", "k">>,
    <<"R", "E", "A", "S", "O", "N">>,
    <<"S", "e", "a", "r", "c", "h">>,
    <<"o", "n", "L", "i", "n", "e">>,
    <<"f", "l", "a", "s", "h">>,
    <<"T", "h", "i", "n">>,
    <<"l", "o", "n", "g", "c", "a", "t", "-">> }

RECURSIVE Concat(_)
Concat(ws) == IF ws = <<>> THEN <<>> ELSE Head(ws) \o Concat(Tail(ws))

LongcatThinking == <<"l", "o", "n", "g", "c", "a", "t", "-", "t", "h", "i", "n", "k", "i", "n", "g">>

LongcatSearch == <<"l", "o", "n", "g", "c", "a", "t", "-", "s", "e", "a", "r", "c", "h">>

LongcatFlash == <<"l", "o", "n", "g", "c", "a", "t", "-", "f", "l", "a", "s", "h">>

\* The model names of requests: no name, up to MaxParts words in a row,
\* and the three models the server lists.
ModelNames ==
  UNION {{Concat(ws) : ws \in [1..n -> Parts]} : n \in 0..MaxParts}
    \cup {LongcatThinking, LongcatSearch, LongcatFlash}

FlagInit ==
  /\ TaskInit
  /\ NsIdle
  /\ PairIdle
  /\ FetchIdle
  /\ modelName \in ModelNames
  /\ flags = <<>>
  /\ LastIdle

\* transformPayload(body)
Transform ==
  /\ flags = <<>>
  /\ flags' = <<TransformPayload(modelName)>>
  /\ UNCHANGED <<modelName, taskVars, parseVars, nsVars, pairVars, fetchVars,
                 lastVars>>

FlagNext == Transform

FlagSpec == FlagInit /\ [][FlagNext]_vars

\* ------------------------------------------- transformPayload: messages
\* A message of the request: whether it has a content field, and the text.
Messages ==
  {[given |-> FALSE, content |-> <<>>]}
    \cup {[given |-> TRUE, content |-> c] : c \in {<<>>, <<"x">>, <<"y">>}}

\* reqBody.messages: up to MaxMsgs messages.
MessageLists == UNION {[1..n -> Messages] : n \in 0..MaxMsgs}

\* What generateMsgId() returns.
MsgIds == 1..MaxIds

\* The same taking the first message.
FirstMessage(ms) == ms[1]

\* reqBody.messages[reqBody.messages.length - 1]
LastMessage(ms) == ms[Len(ms)]

\* lastMessage.content || ""
ContentOrEmpty(m) == IF m.given /\ Len(m.content) > 0 THEN m.content ELSE <<>>

\* { role: "user", events: [{ type: "userMsg", content, status: "FINISHED" }],
\*   chatStatus: "FINISHED", messageId, idType: "custom" }
UserEntry(content, id) ==
  [role |-> "user",
   events |-> <<[type |-> "userMsg", content |-> content, status |-> "FINISHED"]>>,
   chatStatus |-> "FINISHED",
   messageId |-> id]

\* { role: "assistant", events: [], chatStatus: "LOADING", messageId, ... }
AssistantEntry(id) ==
  [role |-> "assistant", events |-> <<>>, chatStatus |-> "LOADING",
   messageId |-> id]

\* What transformPayload returns: content and messages.
Payload(content, entries) ==
  [threw |-> FALSE, content |-> content, messages |-> entries]

\* transformPayload throws: lastMessage is undefined.
Threw == [threw |-> TRUE, content |-> <<>>, messages |-> <<>>]

payloadFrame ==
  UNCHANGED <<reqBody, drafts, taskVars, parseVars, nsVars, pairVars,
              fetchVars, flagVars>>

PayloadInit ==
  /\ TaskInit
  /\ NsIdle
  /\ PairIdle
  /\ FetchIdle
  /\ FlagIdle
  /\ reqBody \in MessageLists
  /\ payload = <<>>
  /\ drafts = <<>>

\* transformPayload(reqBody), with the two identifiers generateMsgId() gave.
Build(userMsgId, assistantMsgId) ==
  /\ payload = <<>>
  /\ payload' =
       IF reqBody = <<>> THEN <<Threw>>
       ELSE <<Payload(ContentOrEmpty(LastMessage(reqBody)),
                      <<UserEntry(ContentOrEmpty(LastMessage(reqBody)), userMsgId),
                        AssistantEntry(assistantMsgId)>>)>>
  /\ payloadFrame

PayloadNext == \E u \in MsgIds, a \in MsgIds : Build(u, a)

PayloadSpec == PayloadInit /\ [][PayloadNext]_vars

\* transformPayload of the first draft (lines 54-79): one entry, with
\* Date.now() for its identifier.
DebugBuild(now) ==
  /\ payload = <<>>
  /\ payload' =
       IF reqBody = <<>> THEN <<Threw>>
       ELSE <<Payload(ContentOrEmpty(LastMessage(reqBody)),
                      <<UserEntry(ContentOrEmpty(LastMessage(reqBody)), now)>>)>>
  /\ payloadFrame

DebugPayloadNext == \E now \in MsgIds : DebugBuild(now)

DebugPayloadSpec == PayloadInit /\ [][DebugPayloadNext]_vars

\* ------------------------------------------------- unterminated last line
\* The last line of an upstream that ends without a newline: an answer
\* event, or a finish event.
TailLines ==
  { <<"d", "a", "t", "a", ":", "{", "c", "}">>,
    <<"d", "a", "t", "a", ":", "{", "f", "}">> }

\* Texts of fewer than MaxFrames complete lines, and a last line without
\* its newline.
TailTexts ==
  {t \o l : t \in UNION {{Join(ls) : ls \in [1..n -> SampleLines]} :
                            n \in 0..(MaxFrames - 1)},
            l \in TailLines}

\* The task is in its read loop, the initial chunk written, and the
\* upstream has such a text to send.
TailInit ==
  /\ pc = "read"
  /\ pending = 0
  /\ lastContent = <<>>
  /\ lastThinking = <<>>
  /\ wstate = "writable"
  /\ upstream = "open"
  /\ out = <<InitialChunk>>
  /\ closeCalled = FALSE
  /\ escaped = FALSE
  /\ exitVia = "none"
  /\ nLines = 0
  /\ fed = [c \in Channels |-> <<>>]
  /\ emitted = [c \in Channels |-> <<>>]
  /\ chain = [c \in Channels |-> TRUE]
  /\ lastEv = NoEv
  /\ sawFinish = FALSE
  /\ inflight = 0
  /\ issued = <<InitialChunk>>
  /\ yielded = <<>>
  /\ whole \in TailTexts
  /\ began = "none"
  /\ pos = 0
  /\ buffer = <<>>
  /\ decoded = <<>>
  /\ RestIdle

TailSpec == TailInit /\ [][ParseNext]_vars

\* ------------------------------------------- the two delta algorithms
\* One channel's tracker: the last-seen value and the deltas emitted.
Untracked == [last |-> <<>>, deltas |-> <<>>]

\* The tracker of lines 1444-1456 after the cumulative value `full`.
FinalAfter(t, full) ==
  [last |-> NextLast(t.last, full),
   deltas |-> IF HasDelta(Delta(t.last, full))
                THEN Append(t.deltas, Delta(t.last, full))
                ELSE t.deltas]

\* The tracker of lines 526-546 after the cumulative value `full`.
TypedAfter(t, full) ==
  [last |-> TypedNextLast(t.last, full),
   deltas |-> IF HasDelta(TypedDelta(t.last, full))
                THEN Append(t.deltas, TypedDelta(t.last, full))
                ELSE t.deltas]

DraftInit ==
  /\ TaskInit
  /\ NsIdle
  /\ PairIdle
  /\ FetchIdle
  /\ FlagIdle
  /\ reqBody = <<>>
  /\ payload = <<>>
  /\ drafts = [final |-> Untracked, typed |-> Untracked, values |-> <<>>]

\* The upstream sends the cumulative value `full` on the channel: both
\* algorithms take it.
DraftStep(full) ==
  /\ Len(drafts.values) < MaxEvents
  /\ drafts' = [final |-> FinalAfter(drafts.final, full),
                typed |-> TypedAfter(drafts.typed, full),
                values |-> Append(drafts.values, full)]
  /\ UNCHANGED <<reqBody, payload, taskVars, parseVars, nsVars, pairVars,
                 fetchVars, flagVars>>

DraftNext == \E full \in Strs : DraftStep(full)

DraftSpec == DraftInit /\ [][DraftNext]_vars

\* ------------------------------------------------------------ C21
\* A search event with a payload is handled.
SearchStep == \E p \in SearchPayloads : SearchEvent(p)

\* C21: a search event leaves both channels' last-seen values and their
\* deltas as they were, and when its block is not empty the block is
\* written whole, as one reasoning_content chunk, whatever was written
\* before it; a think event after it is compared with the last think value.
C21_SearchBypassesTracker ==
  [][SearchStep =>
       /\ lastContent' = lastContent
       /\ lastThinking' = lastThinking
       /\ emitted' = emitted
       /\ \A p \in SearchPayloads :
            (SearchEvent(p) /\ HasLog(SearchLog(p))) =>
              issued' = Append(issued,
                               UpdateChunk({"reasoning_content"},
                                           SearchLog(p), "search"))]_vars

\* A search block written between two think events, the second of which
\* sent only what it added to the first.
C21_Witness ==
  /\ Len(yielded) = 3
  /\ yielded[1].src = "think"
  /\ yielded[2].src = "search"
  /\ yielded[3].src = "think"
  /\ lastThinking = yielded[1].text \o yielded[3].text
  /\ out[3] = UpdateChunk({"reasoning_content"}, yielded[2].text, "search")

\* The same block written twice in a row, whole each time.
C21_Twice ==
  /\ Len(issued) >= 3
  /\ issued[2].src = "search"
  /\ issued[3] = issued[2]

\* ------------------------------------------------------------ C23
\* The step writes nothing and changes nothing the tracker keeps.
NoEffect ==
  /\ out' = out
  /\ issued' = issued
  /\ inflight' = inflight
  /\ yielded' = yielded
  /\ emitted' = emitted
  /\ lastContent' = lastContent
  /\ lastThinking' = lastThinking

\* A search event without a payload.
SearchNoPayload(e) == e.type = "search" /\ ~e.search.present

\* C23: a chunk is written for a search event only if the formatted block
\* is not empty; a search event with no payload, or with a payload that has
\* neither a query nor a result list, writes no chunk and changes no state.
C23_SearchOnlyNonEmpty ==
  [][/\ \A p \in SearchPayloads :
          SearchEvent(p) =>
            IF Len(SearchLog(p)) > 0
              THEN /\ Len(issued') = Len(issued) + 1
                   /\ issued'[Len(issued')].text = SearchLog(p)
              ELSE NoEffect
     /\ \A e \in Events :
          (SearchNoPayload(e) /\ IgnoredEvent(e)) => NoEffect]_vars

\* Three lines have been handled, a search event without query and list
\* among them, and the one block written is all that followed the initial
\* chunk.
C23_Witness ==
  /\ Len(issued) = 2
  /\ issued[2].src = "search"
  /\ Len(issued[2].text) > 0
  /\ nLines = 3
  /\ pending = 0
  /\ pc = "read"

\* ------------------------------------------------------------ C24
\* An event whose type is none of content, think, search and finish, or a
\* content or think event whose payload is not a string.
Unrecognized(e) ==
  \/ e.type \notin {"content", "think", "search", "finish"}
  \/ e.type \in {"content", "think"} /\ ~e.isStr

\* C24: an unrecognized event writes no chunk and changes neither
\* last-seen value.
C24_UnrecognizedNoOp ==
  [][\A e \in Events :
       (Unrecognized(e) /\ IgnoredEvent(e)) => NoEffect]_vars

\* Every unrecognized event is one that no branch takes.
C24_Covered ==
  \A e \in Events :
    Unrecognized(e) =>
      /\ ~(e.type \in Channels /\ e.isStr)
      /\ ~(e.type = "search" /\ e.search.present)
      /\ e.type # "finish"

\* Three lines have been handled, an unrecognized event the last of them,
\* and the two deltas written before it are all that followed the initial
\* chunk.
C24_Witness ==
  /\ lastContent # <<>>
  /\ lastThinking # <<>>
  /\ Len(issued) = 3
  /\ nLines = 3
  /\ pending = 0
  /\ pc = "read"

\* ------------------------------------------------------------ C22
\* The titles of the numbered entries of a block, in the block's order.
Titles(block) ==
  SelectSeq(block, LAMBDA t : \E i \in 1..(MaxResults + 1) : t = Item(i).title)

\* What the step added to searchLogs.
NsAdded == SubSeq(searchLogs', Len(searchLogs) + 1, Len(searchLogs'))

\* C22: on the non-stream path too, a search event with a result list of n
\* entries adds a block with exactly min(n, 5) numbered entries, the first
\* min(n, 5) of the list in the upstream's order.
C22_SearchCap ==
  [][\A n \in ResultCounts :
       NsEvent(Ev("search", FALSE, <<>>, ListPayload(n))) =>
         Titles(NsAdded) = [i \in 1..Min(n, SearchCap) |-> Item(i).title]]_vars

\* What holds of the streaming path: the block has the first min(n, 5)
\* entries and ends with one separator.
C22_StreamCap ==
  \A n \in ResultCounts :
    LET block == SearchLog(ListPayload(n))
    IN  /\ Titles(block) = [i \in 1..Min(n, SearchCap) |-> Item(i).title]
        /\ block[Len(block)] = Separator[1]
        /\ \A i \in 1..(Len(block) - 1) : block[i] # Separator[1]

\* ------------------------------------------------------------ C25
\* C25: once the upstream has signalled finish the non-stream branch has
\* returned its JSON object: it reads no further and takes over nothing
\* that comes after the finish event.
C25_ReturnsAtFinish == sawFinish => nsPc = "returned"

\* ------------------------------------------------------------ C26
\* C26 as stated: the content returned in non-streaming mode is the
\* concatenation of the content deltas streaming emits for the same events,
\* and so for the reasoning once the search lines are set aside.
C26_Original ==
  nsPc = "returned" =>
    /\ result.content = emitted["content"]
    /\ result.reasoning_content =
         NsMessage(<<>>, NsJoined(searchLogs, emitted["think"])).reasoning_content

\* C26: when on a channel every cumulative value extended the one before
\* it and no value came after a finish event, what the non-stream branch
\* returns for the channel is the concatenation of the deltas streaming
\* emits for the same events (for the reasoning: behind the search lines,
\* and null when there is nothing).
C26_Agreement ==
  (nsPc = "returned" /\ ~late) =>
    /\ chain["content"] => result.content = emitted["content"]
    /\ chain["think"] =>
         result.reasoning_content =
           NsMessage(<<>>, NsJoined(searchLogs, emitted["think"])).reasoning_content

\* An answer that grew in two steps and a reasoning text were returned.
C26_Witness ==
  /\ nsPc = "returned"
  /\ ~late
  /\ chain["content"]
  /\ chain["think"]
  /\ Len(result.content) = 2
  /\ fed["content"] = result.content
  /\ result.reasoning_content # Null
  /\ nLines = 3

\* ------------------------------------------------------------ C27
\* The variables of a request that was given `id` and has received `text`,
\* alone and in one read.
Solo(text, id) == AfterRead(Fresh(id), text)

\* C27: whatever the order in which the reads of two streaming requests
\* are served, each request's chunk id, carry-over buffer, last-seen values
\* and chunks written are what they would be had the request been served
\* alone: no event of one request changes anything of the other.
C27_Isolation ==
  \A r \in Requests :
    sent[r].id # Null => cells[Scope(r)] = Solo(sent[r].text, sent[r].id)

\* Both requests are being served, with different ids; the first holds
\* half a line in its buffer and has seen no answer yet while the second
\* has seen answer and reasoning text.
C27_Witness ==
  /\ sent[1].id # Null
  /\ sent[2].id # Null
  /\ sent[1].id # sent[2].id
  /\ sent[1].reads = MaxFeeds
  /\ sent[2].reads = MaxFeeds
  /\ cells[1].buffer # <<>>
  /\ cells[1].st.lastContent = <<>>
  /\ cells[1].st.lastThinking # <<>>
  /\ cells[2].st.lastContent # <<>>
  /\ cells[2].st.lastThinking # <<>>

\* ------------------------------------------------------------ C28
\* The handler has returned after the upstream answered with a status
\* that is not 2xx.
Rejection == hpc = "returned" /\ answer # NoAnswer /\ ~Ok(answer.status)

\* C28 as stated: after a non-2xx answer the client receives a JSON error
\* whose status is the upstream's.
C28_Original ==
  Rejection => (reply.kind = "error" /\ reply.status = answer.status)

\* C28: after a non-2xx answer the client receives a JSON error with the
\* CORS header, whose status is the upstream's when the upstream's body
\* could be read and 500 when reading it failed; no streaming response is
\* started and the upstream was called once.
C28_UpstreamRejection ==
  Rejection =>
    /\ reply.kind = "error"
    /\ reply.json
    /\ reply.cors
    /\ reply.status = IF answer.hasBody /\ ~answer.readable
                        THEN 500 ELSE answer.status
    /\ ~started
    /\ calls = 1

\* A streaming request was answered with 429 by the upstream and with the
\* 429 error by the handler.
C28_Witness ==
  /\ Rejection
  /\ request.stream
  /\ answer.status = 429
  /\ reply = CreateErrorResponse(429)

\* ------------------------------------------------------------ C29
\* The step is one in which the handler fails before it has returned: the
\* body is not JSON, the payload cannot be translated, the upstream call
\* or a read of its body rejects, or the response has no body.
Failing ==
  \/ HParse /\ request.body = "unparsable"
  \/ HTransform /\ request.body \in Untranslatable
  \/ HCallRejected
  \/ HNotOk /\ answer.hasBody /\ ~answer.readable
  \/ HReader /\ ~answer.hasBody
  \/ HCollect /\ ~answer.readable

\* C29: every failure before the Response is returned ends in the JSON
\* error of status 500; nothing is thrown to the server, and a stream is
\* returned only by a step that did not fail.
C29_InternalError ==
  [][/\ hpc' # "threw"
     /\ Failing =>
          /\ hpc' = "returned"
          /\ reply' = CreateErrorResponse(500)
          /\ reply'.json
          /\ ~started']_vars

\* The handler returned the 500 error without having called the upstream.
C29_Witness ==
  /\ hpc = "returned"
  /\ calls = 0
  /\ reply = CreateErrorResponse(500)
  /\ request.stream

\* The 500 error after an upstream answer without a body.
C29_NoBody ==
  /\ hpc = "returned"
  /\ answer # NoAnswer
  /\ Ok(answer.status)
  /\ ~answer.hasBody
  /\ reply = CreateErrorResponse(500)

\* ------------------------------------------------------------ C30
\* The word stands in the name at position i, in whatever case.
WordAt(name, i, word) ==
  /\ i + Len(word) - 1 <= Len(name)
  /\ \A j \in 1..Len(word) :
       \/ name[i + j - 1] = word[j]
       \/ \E k \in 1..Len(Upper) :
            Lower[k] = word[j] /\ name[i + j - 1] = Upper[k]

\* The name has the word somewhere, in whatever case.
Names(name, word) == \E i \in 1..Len(name) : WordAt(name, i, word)

\* C30: reasonEnabled is 1 exactly when the model name has "think" or
\* "reason" in it, searchEnabled is 1 exactly when it has "search" or
\* "online" in it, in whatever case and each whatever the other is;
\* "longcat-thinking" gives (1, 0), "longcat-search" (0, 1) and
\* "longcat-flash", like a missing name, (0, 0).
C30_FeatureFlags ==
  flags # <<>> =>
    /\ flags[1].reasonEnabled \in {0, 1}
    /\ flags[1].searchEnabled \in {0, 1}
    /\ flags[1].reasonEnabled = 1 <=>
         (Names(modelName, <<"t", "h", "i", "n", "k">>) \/ Names(modelName, <<"r", "e", "a", "s", "o", "n">>))
    /\ flags[1].searchEnabled = 1 <=>
         (Names(modelName, <<"s", "e", "a", "r", "c", "h">>) \/ Names(modelName, <<"o", "n", "l", "i", "n", "e">>))
    /\ modelName = LongcatThinking =>
         (flags[1].reasonEnabled = 1 /\ flags[1].searchEnabled = 0)
    /\ modelName = LongcatSearch =>
         (flags[1].reasonEnabled = 0 /\ flags[1].searchEnabled = 1)
    /\ modelName \in {LongcatFlash, <<>>} =>
         (flags[1].reasonEnabled = 0 /\ flags[1].searchEnabled = 0)

\* A name in upper and mixed case that asks for both: both flags are set.
C30_Witness ==
  /\ flags # <<>>
  /\ modelName = <<"R", "E", "A", "S", "O", "N", "S", "e", "a", "r", "c", "h">>
  /\ flags[1].reasonEnabled = 1
  /\ flags[1].searchEnabled = 1

\* ------------------------------------------------------------ C31
\* transformPayload has returned a payload.
Built == payload # <<>> /\ ~payload[1].threw

\* C31: in every payload the identifier of the user entry differs from the
\* identifier of the assistant entry.
C31_DistinctIds ==
  Built => payload[1].messages[1].messageId # payload[1].messages[2].messageId

\* ------------------------------------------------------------ C32
\* The content of the request's last message, empty when it has none.
LastContentOf(ms) ==
  IF ms[Len(ms)].given THEN ms[Len(ms)].content ELSE <<>>

\* C32: for a request with at least one message the translation does not
\* fail, and the payload's content, at the top and in the user entry, is
\* the content of the last message, empty when that message has none,
\* whatever the earlier messages hold.
C32_LastMessageOnly ==
  (reqBody # <<>> /\ payload # <<>>) =>
    /\ ~payload[1].threw
    /\ payload[1].content = LastContentOf(reqBody)
    /\ payload[1].messages[1].events[1].content = LastContentOf(reqBody)

\* Three messages with the contents "x", "x" and "y": "y" was forwarded.
C32_Witness ==
  /\ Built
  /\ Len(reqBody) = 3
  /\ reqBody[1].content = <<"x">>
  /\ reqBody[2].content = <<"x">>
  /\ payload[1].content = <<"y">>

\* A last message without content, after one with content: the empty
\* string was forwarded.
C32_Missing ==
  /\ Built
  /\ Len(reqBody) = 2
  /\ reqBody[1].content = <<"x">>
  /\ ~reqBody[2].given
  /\ payload[1].content = <<>>

\* ------------------------------------------------------------ C33
\* C33: every payload has exactly two entries: a user entry that carries
\* the content with status FINISHED, then an assistant entry without
\* events and with status LOADING.
C33_AssistantPlaceholder ==
  Built =>
    /\ Len(payload[1].messages) = 2
    /\ payload[1].messages[1].role = "user"
    /\ payload[1].messages[1].chatStatus = "FINISHED"
    /\ payload[1].messages[1].events[1].status = "FINISHED"
    /\ payload[1].messages[1].events[1].content = payload[1].content
    /\ payload[1].messages[2].role = "assistant"
    /\ payload[1].messages[2].events = <<>>
    /\ payload[1].messages[2].chatStatus = "LOADING"

\* ------------------------------------------------------------ C34
\* What the complete lines of the whole text give, handled in one go.
OfCompleteLines ==
  ProcessLines(ParserState(<<>>, <<>>, <<InitialChunk>>, <<>>),
               Complete(Split(whole)))

\* C34: when the upstream has ended and the writer is closed, the last
\* line, which has no newline, is still in the buffer and was never
\* parsed: the chunks written and the last-seen values are those of the
\* complete lines alone, and there is neither a finish chunk nor a
\* terminal marker among them.
C34_TailDropped ==
  pc = "done" =>
    /\ buffer = Carry(Split(whole))
    /\ buffer \in TailLines
    /\ out = OfCompleteLines.out
    /\ lastContent = OfCompleteLines.lastContent
    /\ decoded = OfCompleteLines.decoded
    /\ CountKind(out, "finish") = 0
    /\ CountKind(out, "done") = 0
    /\ closeCalled

\* The stream was closed with a finish event left in the buffer, after an
\* answer line was handled.
C34_Witness ==
  /\ pc = "done"
  /\ wstate = "closed"
  /\ JsonStr(buffer) = <<"{", "f", "}">>
  /\ Len(out) = 2
  /\ began = "mid"

\* The stream was closed with an answer event left in the buffer and
\* nothing but the initial chunk written.
C34_AnswerLost ==
  /\ pc = "done"
  /\ JsonStr(buffer) = <<"{", "c", "}">>
  /\ out = <<InitialChunk>>

\* ------------------------------------------------------------ C35
\* No empty cumulative value has been sent.
AllNonEmpty == \A i \in 1..Len(drafts.values) : drafts.values[i] # <<>>

\* C35: as long as every cumulative value sent on the channel is non-empty,
\* the algorithm with the reset and the one without it have emitted the
\* same deltas and hold the same last-seen value; they differ only after
\* an empty value.
C35_DraftsAgree == AllNonEmpty => drafts.final = drafts.typed

\* Three non-empty values, the second shorter than the first and the third
\* as long as the second but different: both algorithms sent each in full.
C35_Witness ==
  /\ AllNonEmpty
  /\ Len(drafts.values) = 3
  /\ Len(drafts.values[2]) < Len(drafts.values[1])
  /\ Len(drafts.values[3]) = Len(drafts.values[2])
  /\ drafts.final.deltas = drafts.values
  /\ drafts.typed.deltas = drafts.values

\* After an empty value the two differ: the one with the reset sends the
\* value that was there before once more.
C35_Differ ==
  /\ ~AllNonEmpty
  /\ Len(drafts.final.deltas) > Len(drafts.typed.deltas)

\* ------------------------------------------------------------ C36
\* C36: a request whose messages are missing or an empty list is answered
\* with the JSON error of status 500, and the upstream is never called for
\* it.
C36_EmptyMessages ==
  request.body \in Untranslatable =>
    /\ calls = 0
    /\ ~started
    /\ hpc = "returned" => reply = CreateErrorResponse(500)
    /\ hpc \in {"start", "parsed", "returned"}

\* A streaming request with an empty list of messages got the 500 error.
C36_Witness ==
  /\ request.body = "emptymessages"
  /\ request.stream
  /\ hpc = "returned"
  /\ reply = CreateErrorResponse(500)
  /\ calls = 0

\* ------------------------------------------------------------ C37
\* A search event with no query and an empty result list.
EmptyList == ListPayload(0)

\* C37: a search event with no query and an empty result list writes one
\* reasoning_content chunk whose text is the separator alone.
C37_EmptyResultList ==
  [][SearchEvent(EmptyList) =>
       /\ issued' = Append(issued,
                           UpdateChunk({"reasoning_content"}, Separator, "search"))
       /\ Len(Separator) = 1
       /\ \A i \in 1..(MaxResults + 1) : Item(i).title # Separator[1]]_vars

\* The separator alone was written, and accepted, after the initial chunk.
C37_Witness ==
  /\ Len(out) = 2
  /\ out[2] = UpdateChunk({"reasoning_content"}, Separator, "search")

\* ------------------------------------------------------------ C38
\* C38: when the server has an API key, a chat request whose bearer token
\* is not the key is answered 401 and causes no upstream call.
C38_ApiKeyGate ==
  (request.apiKey = "key" /\ request.authorization # "Bearer key") =>
    /\ calls = 0
    /\ hpc = "returned" => reply.status = 401

====
